---- MODULE Spec2Model ----
(***************************************************************************)
(* Model of src/src/workout_parser.py: the SetConfig / ExerciseConfig /    *)
(* RoutineConfig value types and their wire conversion, the WorkoutParser  *)
(* name index and resolver, the JSON and text extractors, the validator   *)
(* and the preview formatter.                                              *)
(*                                                                         *)
(* A Python str is a sequence of one-character strings.  A Python value    *)
(* whose type is only known at run time is a tagged record: None,         *)
(* PyInt(n), PyStr(s), PyBool(b), PyList(l), PyDict(d).  A Python dict is  *)
(* a sequence of <<key, value>> pairs in insertion order.  A call that     *)
(* raises yields Raise(e).                                                 *)
(***************************************************************************)
EXTENDS Integers, Sequences, FiniteSets, TLC

VARIABLES
    exercise_templates, \* WorkoutParser.exercise_templates: the catalog
    name_to_id,         \* WorkoutParser._name_to_id: the name index
    op,                 \* the last operation called
    arg,                \* its argument
    result,             \* what it returned (or raised)
    last_successful_model, \* ModelRouter._last_successful_model
    available,          \* generate: the available models, in the order of the loop
    router_errors       \* generate: the list errors of the loop

vars == <<exercise_templates, name_to_id, op, arg, result,
          last_successful_model, available, router_errors>>

\* the variables of the router
routerVars == <<last_successful_model, available, router_errors>>

----------------------------------------------------------------------------
(* Bounds of the model *)

\* Largest number of templates in a catalog.
MaxCatalog == 2

\* Largest rep count, range bound and set count drawn as an input.
MaxReps == 3

\* the set counts of the generated exercise entries and lines: 0..MaxSets
MaxSets == 2

\* Largest number of exercises in a routine given to validate_routine,
\* format_routine_preview and RoutineConfig.to_api_format.
MaxExercises == 2

----------------------------------------------------------------------------
(* Python values *)

None == [t |-> "None"]
PyInt(n) == [t |-> "int", v |-> n]
PyStr(s) == [t |-> "str", v |-> s]
PyBool(b) == [t |-> "bool", v |-> b]
PyList(l) == [t |-> "list", v |-> l]
PyDict(d) == [t |-> "dict", v |-> d]
\* a float, as its integer part and its decimal digits without trailing zeros
PyFloat(whole, frac) == [t |-> "float", whole |-> whole, frac |-> frac]
Raise(e) == [t |-> "raise", exc |-> e]

IsRaise(x) == x.t = "raise"

\* bool(x) of the interpreter, for the values of the model
Truthy(x) ==
    CASE x.t = "None" -> FALSE
      [] x.t = "int" -> x.v # 0
      [] x.t = "bool" -> x.v
      [] x.t = "float" -> x.whole # 0 \/ x.frac # <<>>
      [] x.t = "str" -> x.v # <<>>
      [] x.t = "list" -> x.v # <<>>
      [] x.t = "dict" -> x.v # <<>>
      [] OTHER -> TRUE

\* d[k] of a dict given as a sequence of <<key, value>> pairs
DictHas(d, k) == \E i \in 1..Len(d) : d[i][1] = k
DictAt(d, k) == d[CHOOSE i \in 1..Len(d) : d[i][1] = k][2]
\* d.get(k, default)
DictGet(d, k, default) == IF DictHas(d, k) THEN DictAt(d, k) ELSE default
\* d[k] = v: a key already present keeps its place, a new one goes last
DictSet(d, k, v) ==
    IF DictHas(d, k)
    THEN [i \in 1..Len(d) |-> IF d[i][1] = k THEN <<k, v>> ELSE d[i]]
    ELSE Append(d, <<k, v>>)

----------------------------------------------------------------------------
(* Python str operations *)

Chars(s) == [i \in 1..Len(s) |-> SubSeq(s, i, i)]

UpperLetters == Chars("ABCDEFGHIJKLMNOPQRSTUVWXYZÀÁÂÃÇÉÊÍÓÔÕÚ")
LowerLetters == Chars("abcdefghijklmnopqrstuvwxyzàáâãçéêíóôõú")
Digits == {"0", "1", "2", "3", "4", "5", "6", "7", "8", "9"}
WhiteSpace == {" ", "\n", "\t", "\r"}

IsUpper(c) == \E i \in 1..Len(UpperLetters) : UpperLetters[i] = c
IsLower(c) == \E i \in 1..Len(LowerLetters) : LowerLetters[i] = c
IsLetter(c) == IsUpper(c) \/ IsLower(c)
IsDigit(c) == c \in Digits
IsSpace(c) == c \in WhiteSpace

LowerChar(c) ==
    IF IsUpper(c)
    THEN LowerLetters[CHOOSE i \in 1..Len(UpperLetters) : UpperLetters[i] = c]
    ELSE c

\* s.lower()
str_lower(s) == [i \in 1..Len(s) |-> LowerChar(s[i])]

\* s.strip()
str_strip(s) ==
    LET inside == {i \in 1..Len(s) : ~IsSpace(s[i])}
    IN  IF inside = {} THEN <<>>
        ELSE LET first == CHOOSE i \in inside : \A j \in inside : i <= j
                 last == CHOOSE i \in inside : \A j \in inside : j <= i
             IN  SubSeq(s, first, last)

\* sub in s
str_contains(s, sub) ==
    \E i \in 1..(Len(s) - Len(sub) + 1) : SubSeq(s, i, i + Len(sub) - 1) = sub

\* s.startswith(prefix)
str_startswith(s, prefix) ==
    Len(prefix) <= Len(s) /\ SubSeq(s, 1, Len(prefix)) = prefix

\* set(s.split()): the maximal runs of non-whitespace characters of s
str_split_set(s) ==
    {SubSeq(s, i, j) : <<i, j>> \in
        {p \in (1..Len(s)) \X (1..Len(s)) :
            /\ p[1] <= p[2]
            /\ \A k \in p[1]..p[2] : ~IsSpace(s[k])
            /\ (p[1] = 1 \/ IsSpace(s[p[1] - 1]))
            /\ (p[2] = Len(s) \/ IsSpace(s[p[2] + 1]))}}

\* the characters of s joined into one string (dict keys are strings)
RECURSIVE StrOf(_)
StrOf(s) == IF s = <<>> THEN "" ELSE Head(s) \o StrOf(Tail(s))

DigitVal(c) == CHOOSE d \in 0..9 : ToString(d) = c

\* int(ds) of a run of decimal digits
RECURSIVE IntOf(_)
IntOf(ds) ==
    IF ds = <<>> THEN 0
    ELSE IntOf(SubSeq(ds, 1, Len(ds) - 1)) * 10 + DigitVal(ds[Len(ds)])

\* the first position from i on that holds no digit
RECURSIVE DigitsEnd(_, _)
DigitsEnd(s, i) ==
    IF i <= Len(s) /\ IsDigit(s[i]) THEN DigitsEnd(s, i + 1) ELSE i

----------------------------------------------------------------------------
(* json.loads, for documents made of objects, arrays, strings without      *)
(* escapes, integers, true, false and null                                 *)

JsonFail == [ok |-> FALSE]
JsonOk(v, i) == [ok |-> TRUE, v |-> v, i |-> i]

RECURSIVE SkipWs(_, _)
SkipWs(s, i) ==
    IF i <= Len(s) /\ s[i] \in {" ", "\n", "\t", "\r"} THEN SkipWs(s, i + 1) ELSE i

\* a string literal whose opening quote is at i
JsonString(s, i) ==
    LET closing == {j \in (i + 1)..Len(s) : s[j] = "\""}
    IN  IF closing = {} THEN JsonFail
        ELSE LET j == CHOOSE j \in closing : \A k \in closing : j <= k
             IN  IF \E k \in (i + 1)..(j - 1) : s[k] \in {"\n", "\t", "\r"}
                 THEN JsonFail
                 ELSE JsonOk(PyStr(SubSeq(s, i + 1, j - 1)), j + 1)

\* an integer literal at i
JsonNumber(s, i) ==
    LET j == IF s[i] = "-" THEN i + 1 ELSE i
    IN  IF j > Len(s) \/ ~IsDigit(s[j]) THEN JsonFail
        ELSE LET e == IF s[j] = "0" THEN j + 1 ELSE DigitsEnd(s, j)
                 n == IntOf(SubSeq(s, j, e - 1))
             IN  JsonOk(PyInt(IF j > i THEN 0 - n ELSE n), e)

JsonLiteral(s, i, word, v) ==
    IF i + Len(word) - 1 <= Len(s) /\ SubSeq(s, i, i + Len(word) - 1) = Chars(word)
    THEN JsonOk(v, i + Len(word))
    ELSE JsonFail

RECURSIVE JsonValue(_, _), JsonMembers(_, _, _), JsonElements(_, _, _)

\* the value that starts at i
JsonValue(s, i) ==
    IF i > Len(s) THEN JsonFail
    ELSE CASE s[i] = "{" ->
                LET j == SkipWs(s, i + 1)
                IN  IF j <= Len(s) /\ s[j] = "}" THEN JsonOk(PyDict(<<>>), j + 1)
                    ELSE JsonMembers(s, j, <<>>)
           [] s[i] = "[" ->
                LET j == SkipWs(s, i + 1)
                IN  IF j <= Len(s) /\ s[j] = "]" THEN JsonOk(PyList(<<>>), j + 1)
                    ELSE JsonElements(s, j, <<>>)
           [] s[i] = "\"" -> JsonString(s, i)
           [] s[i] = "-" \/ IsDigit(s[i]) -> JsonNumber(s, i)
           [] s[i] = "t" -> JsonLiteral(s, i, "true", PyBool(TRUE))
           [] s[i] = "f" -> JsonLiteral(s, i, "false", PyBool(FALSE))
           [] s[i] = "n" -> JsonLiteral(s, i, "null", None)
           [] OTHER -> JsonFail

\* the members of an object from the key at i on; acc holds those read
JsonMembers(s, i, acc) ==
    IF i > Len(s) \/ s[i] # "\"" THEN JsonFail
    ELSE LET key == JsonString(s, i)
         IN  IF ~key.ok THEN JsonFail
             ELSE LET c == SkipWs(s, key.i)
                  IN  IF c > Len(s) \/ s[c] # ":" THEN JsonFail
                      ELSE LET val == JsonValue(s, SkipWs(s, c + 1))
                           IN  IF ~val.ok THEN JsonFail
                               ELSE LET d == SkipWs(s, val.i)
                                        now == DictSet(acc, StrOf(key.v.v), val.v)
                                    IN  IF d > Len(s) THEN JsonFail
                                        ELSE IF s[d] = "}" THEN JsonOk(PyDict(now), d + 1)
                                        ELSE IF s[d] = ","
                                        THEN JsonMembers(s, SkipWs(s, d + 1), now)
                                        ELSE JsonFail

\* the elements of an array from the value at i on; acc holds those read
JsonElements(s, i, acc) ==
    LET val == JsonValue(s, i)
    IN  IF ~val.ok THEN JsonFail
        ELSE LET d == SkipWs(s, val.i)
                 now == Append(acc, val.v)
             IN  IF d > Len(s) THEN JsonFail
                 ELSE IF s[d] = "]" THEN JsonOk(PyList(now), d + 1)
                 ELSE IF s[d] = "," THEN JsonElements(s, SkipWs(s, d + 1), now)
                 ELSE JsonFail

\* json.loads(s): the value, or Raise("JSONDecodeError")
json_loads(s) ==
    LET r == JsonValue(s, SkipWs(s, 1))
    IN  IF r.ok /\ SkipWs(s, r.i) > Len(s) THEN r.v ELSE Raise("JSONDecodeError")

----------------------------------------------------------------------------
(* SetConfig *)

\* the dataclass, every field at its default
SetConfig ==
    [type |-> PyStr(Chars("normal")), weight_kg |-> None, reps |-> None,
     rep_range_start |-> None, rep_range_end |-> None, rest_seconds |-> None,
     distance_meters |-> None, duration_seconds |-> None]

\* SetConfig.to_api_format with an explicit range emitted as null when it is
\* falsy instead of being left out
SetConfig_to_api_format_null_range(self) ==
    LET data == <<
            <<"type", self.type>>,
            <<"weight_kg", self.weight_kg>>,
            <<"reps", self.reps>>,
            <<"distance_meters", self.distance_meters>>,
            <<"duration_seconds", self.duration_seconds>>,
            <<"custom_metric", None>> >>
    IN  IF Truthy(self.rep_range_start) /\ Truthy(self.rep_range_end)
        THEN PyDict(DictSet(data, "rep_range",
                PyDict(<< <<"start", self.rep_range_start>>,
                        <<"end", self.rep_range_end>> >>)))
        ELSE IF Truthy(self.reps)
        THEN PyDict(DictSet(data, "rep_range",
                PyDict(<< <<"start", PyInt(IF self.reps.v - 2 > 1
                                          THEN self.reps.v - 2 ELSE 1)>>,
                        <<"end", PyInt(self.reps.v + 2)>> >>)))
        ELSE PyDict(DictSet(data, "rep_range", None))

\* SetConfig.to_api_format
SetConfig_to_api_format(self) ==
    LET data == <<
            <<"type", self.type>>,
            <<"weight_kg", self.weight_kg>>,
            <<"reps", self.reps>>,
            <<"distance_meters", self.distance_meters>>,
            <<"duration_seconds", self.duration_seconds>>,
            <<"custom_metric", None>> >>
    IN  IF Truthy(self.rep_range_start) /\ Truthy(self.rep_range_end)
        THEN PyDict(DictSet(data, "rep_range",
                PyDict(<< <<"start", self.rep_range_start>>,
                        <<"end", self.rep_range_end>> >>)))
        ELSE IF Truthy(self.reps)
        THEN IF self.reps.t \in {"int", "bool"}
             THEN PyDict(DictSet(data, "rep_range",
                     PyDict(<< <<"start", PyInt(IF self.reps.v - 2 > 1
                                               THEN self.reps.v - 2 ELSE 1)>>,
                             <<"end", PyInt(self.reps.v + 2)>> >>)))
             ELSE Raise("TypeError")
        ELSE PyDict(data)

----------------------------------------------------------------------------
(* WorkoutParser: the name index and the resolver *)

\* the display name read from the field "name" instead
TemplateTitle_name_field(template) == DictGet(template, "name", <<>>)

\* template.get("title", "") of a catalog record
TemplateTitle(template) == DictGet(template, "title", <<>>)

\* the index keeping, for a name met again, the id it already has
RECURSIVE BuildFrom_first_kept(_, _, _)
BuildFrom_first_kept(templates, i, index) ==
    IF i > Len(templates) THEN index
    ELSE LET template_id == templates[i][1]
             name == str_strip(str_lower(TemplateTitle(templates[i][2])))
         IN  BuildFrom_first_kept(templates, i + 1,
                 IF name # <<>> /\ ~DictHas(index, name)
                 THEN DictSet(index, name, template_id) ELSE index)

\* WorkoutParser._build_name_index, from the empty index
RECURSIVE BuildFrom(_, _, _)
BuildFrom(templates, i, index) ==
    IF i > Len(templates) THEN index
    ELSE LET template_id == templates[i][1]
             name == str_strip(str_lower(TemplateTitle(templates[i][2])))
         IN  BuildFrom(templates, i + 1,
                 IF name # <<>> THEN DictSet(index, name, template_id) ELSE index)

build_name_index(templates) == BuildFrom(templates, 1, <<>>)

\* the token-overlap tier keeping the last of the entries of equal score
RECURSIVE BestMatch_last_tie(_, _, _, _, _)
BestMatch_last_tie(index, name_words, i, best_match, best_score) ==
    IF i > Len(index) THEN <<best_match, best_score>>
    ELSE LET template_words == str_split_set(index[i][1])
             score == Cardinality(name_words \cap template_words)
         IN  IF score >= best_score
             THEN BestMatch_last_tie(index, name_words, i + 1, PyStr(index[i][2]), score)
             ELSE BestMatch_last_tie(index, name_words, i + 1, best_match, best_score)

\* the token-overlap tier of find_exercise_id: the loop from entry i on
RECURSIVE BestMatch(_, _, _, _, _)
BestMatch(index, name_words, i, best_match, best_score) ==
    IF i > Len(index) THEN <<best_match, best_score>>
    ELSE LET template_words == str_split_set(index[i][1])
             score == Cardinality(name_words \cap template_words)
         IN  IF score > best_score
             THEN BestMatch(index, name_words, i + 1, PyStr(index[i][2]), score)
             ELSE BestMatch(index, name_words, i + 1, best_match, best_score)

\* find_exercise_id with the substring tier tried before the exact tier
find_exercise_id_partial_first(index, name) ==
    LET name_lower == str_strip(str_lower(name))
        partial == {i \in 1..Len(index) :
                        \/ str_contains(index[i][1], name_lower)
                        \/ str_contains(name_lower, index[i][1])}
    IN  IF partial # {}
        THEN PyStr(index[CHOOSE i \in partial : \A j \in partial : i <= j][2])
        ELSE IF DictHas(index, name_lower) THEN PyStr(DictAt(index, name_lower))
        ELSE None

\* find_exercise_id with the token sets built from the characters of the
\* names (set(name_lower)) instead of their words (set(name_lower.split()))
find_exercise_id_char_tokens(index, name) ==
    LET name_lower == str_strip(str_lower(name))
        partial == {i \in 1..Len(index) :
                        \/ str_contains(index[i][1], name_lower)
                        \/ str_contains(name_lower, index[i][1])}
        shared == {i \in 1..Len(index) :
                        \E j \in 1..Len(index[i][1]) : \E k \in 1..Len(name_lower) :
                            index[i][1][j] = name_lower[k]}
    IN  IF DictHas(index, name_lower) THEN PyStr(DictAt(index, name_lower))
        ELSE IF partial # {}
        THEN PyStr(index[CHOOSE i \in partial : \A j \in partial : i <= j][2])
        ELSE IF shared # {}
        THEN PyStr(index[CHOOSE i \in shared : \A j \in shared : i <= j][2])
        ELSE None

\* find_exercise_id with the token-overlap tier tried before the substring
\* tier
find_exercise_id_tokens_first(index, name) ==
    LET name_lower == str_strip(str_lower(name))
        partial == {i \in 1..Len(index) :
                        \/ str_contains(index[i][1], name_lower)
                        \/ str_contains(name_lower, index[i][1])}
        best == BestMatch(index, str_split_set(name_lower), 1, None, 0)
    IN  IF DictHas(index, name_lower) THEN PyStr(DictAt(index, name_lower))
        ELSE IF best[2] >= 1 THEN best[1]
        ELSE IF partial # {}
        THEN PyStr(index[CHOOSE i \in partial : \A j \in partial : i <= j][2])
        ELSE None

\* WorkoutParser.find_exercise_id
find_exercise_id(index, name) ==
    LET name_lower == str_strip(str_lower(name))
        partial == {i \in 1..Len(index) :
                        \/ str_contains(index[i][1], name_lower)
                        \/ str_contains(name_lower, index[i][1])}
    IN  IF DictHas(index, name_lower) THEN PyStr(DictAt(index, name_lower))
        ELSE IF partial # {}
        THEN PyStr(index[CHOOSE i \in partial : \A j \in partial : i <= j][2])
        ELSE LET best == BestMatch(index, str_split_set(name_lower), 1, None, 0)
             IN  IF best[2] >= 1 THEN best[1] ELSE None

\* find_exercise_id keeping the identifier it found under the name it was
\* asked for
NameIndexAfterFind_memoised(index, name) ==
    IF find_exercise_id(index, name) # None
           /\ ~DictHas(index, str_strip(str_lower(name)))
    THEN DictSet(index, str_strip(str_lower(name)), find_exercise_id(index, name).v)
    ELSE index

\* self._name_to_id after find_exercise_id: lines 169-182 read the index
\* (in, [], items()) and assign to none of its keys
NameIndexAfterFind(index, name) == index

----------------------------------------------------------------------------
(* ExerciseConfig, RoutineConfig and WorkoutParser.parse_json *)

ExerciseConfig(name, exercise_template_id, sets, rest_seconds, notes, superset_id) ==
    [name |-> name, exercise_template_id |-> exercise_template_id, sets |-> sets,
     rest_seconds |-> rest_seconds, notes |-> notes, superset_id |-> superset_id]

RoutineConfig(title, exercises, folder_id, notes) ==
    [t |-> "RoutineConfig", title |-> title, exercises |-> exercises,
     folder_id |-> folder_id, notes |-> notes]

\* the first exception of a list of results, or the list itself
FirstRaiseOr(results) ==
    IF \E i \in 1..Len(results) : IsRaise(results[i])
    THEN results[CHOOSE i \in 1..Len(results) :
                     IsRaise(results[i]) /\ \A j \in 1..(i - 1) : ~IsRaise(results[j])]
    ELSE PyList(results)

\* the dict of ExerciseConfig.to_api_format, given the converted sets
ExerciseWire(self, sets) ==
    IF IsRaise(sets) THEN sets
    ELSE PyDict(<< <<"exercise_template_id", self.exercise_template_id>>,
                   <<"superset_id", self.superset_id>>,
                   <<"rest_seconds", self.rest_seconds>>,
                   <<"notes", self.notes>>,
                   <<"sets", sets>> >>)

\* ExerciseConfig.to_api_format with the sets converted last to first
ExerciseConfig_to_api_format_reversed(self) ==
    ExerciseWire(self, FirstRaiseOr([i \in 1..Len(self.sets) |->
                     SetConfig_to_api_format(self.sets[Len(self.sets) + 1 - i])]))

ExerciseConfig_to_api_format(self) ==
    ExerciseWire(self, FirstRaiseOr([i \in 1..Len(self.sets) |->
                                         SetConfig_to_api_format(self.sets[i])]))

\* the dict of RoutineConfig.to_api_format, given the converted exercises
RoutineWire(self, exercises) ==
    IF IsRaise(exercises) THEN exercises
    ELSE PyDict(<< <<"title", self.title>>,
                   <<"folder_id", self.folder_id>>,
                   <<"notes", self.notes>>,
                   <<"exercises", exercises>> >>)

RoutineConfig_to_api_format(self) ==
    RoutineWire(self, FirstRaiseOr([i \in 1..Len(self.exercises) |->
                                        ExerciseConfig_to_api_format(self.exercises[i])]))

IsRoutine(x) == x.t = "RoutineConfig"

\* a step that completed with value v (a step that did not is Raise(e))
Ok(v) == [t |-> "ok", v |-> v]

\* isinstance(x, int): bool is a subclass of int
IsInstanceInt(x) == x.t \in {"int", "bool"}
IntValue(x) == IF x.t = "bool" THEN (IF x.v THEN 1 ELSE 0) ELSE x.v

\* the items "for item in x" visits, for the values that can be iterated
Iterable(x) == x.t \in {"list", "dict", "str"}
Items(x) ==
    CASE x.t = "list" -> x.v
      [] x.t = "dict" -> [i \in 1..Len(x.v) |-> PyStr(Chars(x.v[i][1]))]
      [] x.t = "str" -> [i \in 1..Len(x.v) |-> PyStr(<<x.v[i]>>)]

\* parse_json, lines 228-243: the sets of an entry whose "sets" is an integer
AbbreviatedSets(ex_data, sets_data) ==
    LET num_sets == IntValue(sets_data)
        reps == DictGet(ex_data, "reps", PyInt(10))
        rep_range == DictGet(ex_data, "rep_range", PyDict(<<>>))
        weight == DictGet(ex_data, "weight_kg", None)
    IN  IF num_sets <= 0 THEN Ok(<<>>)
        ELSE IF rep_range.t # "dict" THEN Raise("AttributeError")
        ELSE Ok([i \in 1..num_sets |->
                [SetConfig EXCEPT !.reps = reps,
                                  !.weight_kg = weight,
                                  !.rep_range_start = DictGet(rep_range.v, "start", None),
                                  !.rep_range_end = DictGet(rep_range.v, "end", None)]])

\* parse_json, lines 248-257: the SetConfig of one entry of a "sets" list
DetailedSet(s) ==
    LET rep_range == DictGet(s, "rep_range", PyDict(<<>>))
    IN  [type |-> DictGet(s, "type", PyStr(Chars("normal"))),
         weight_kg |-> DictGet(s, "weight_kg", None),
         reps |-> DictGet(s, "reps", None),
         rep_range_start |-> DictGet(rep_range.v, "start", None),
         rep_range_end |-> DictGet(rep_range.v, "end", None),
         rest_seconds |-> DictGet(s, "rest_seconds", None),
         distance_meters |-> DictGet(s, "distance_meters", None),
         duration_seconds |-> DictGet(s, "duration_seconds", None)]

\* parse_json, lines 244-257: the sets of an entry whose "sets" is no integer
DetailedSets(sets_data) ==
    IF ~Iterable(sets_data) THEN Raise("TypeError")
    ELSE LET items == Items(sets_data)
         IN  IF \E i \in 1..Len(items) :
                    \/ items[i].t # "dict"
                    \/ DictGet(items[i].v, "rep_range", PyDict(<<>>)).t # "dict"
             THEN Raise("AttributeError")
             ELSE Ok([i \in 1..Len(items) |-> DetailedSet(items[i].v)])

\* the exercise of one entry with the resolver asked before the entry's own
\* exercise_template_id is looked at
ExerciseFromJson_resolver_first(index, ex_data) ==
    IF ex_data.t # "dict" THEN Raise("AttributeError")
    ELSE LET name == DictGet(ex_data.v, "name", PyStr(<<>>))
             explicit == DictGet(ex_data.v, "exercise_template_id", None)
             template_id ==
                 IF name.t # "str" THEN Raise("AttributeError")
                 ELSE IF find_exercise_id(index, name.v) # None
                 THEN find_exercise_id(index, name.v)
                 ELSE explicit
             sets_data == DictGet(ex_data.v, "sets", PyList(<<>>))
             sets == IF IsInstanceInt(sets_data)
                     THEN AbbreviatedSets(ex_data.v, sets_data)
                     ELSE DetailedSets(sets_data)
         IN  IF IsRaise(template_id) THEN template_id
             ELSE IF IsRaise(sets) THEN sets
             ELSE Ok(ExerciseConfig(name, template_id, sets.v,
                        DictGet(ex_data.v, "rest_seconds", PyInt(60)),
                        DictGet(ex_data.v, "notes", None),
                        DictGet(ex_data.v, "superset_id", None)))

\* parse_json, lines 223-266: the ExerciseConfig of one entry of "exercises"
ExerciseFromJson(index, ex_data) ==
    IF ex_data.t # "dict" THEN Raise("AttributeError")
    ELSE LET name == DictGet(ex_data.v, "name", PyStr(<<>>))
             explicit == DictGet(ex_data.v, "exercise_template_id", None)
             template_id ==
                 IF Truthy(explicit) THEN explicit
                 ELSE IF name.t # "str" THEN Raise("AttributeError")
                 ELSE find_exercise_id(index, name.v)
             sets_data == DictGet(ex_data.v, "sets", PyList(<<>>))
             sets == IF IsInstanceInt(sets_data)
                     THEN AbbreviatedSets(ex_data.v, sets_data)
                     ELSE DetailedSets(sets_data)
         IN  IF IsRaise(template_id) THEN template_id
             ELSE IF IsRaise(sets) THEN sets
             ELSE Ok(ExerciseConfig(name, template_id, sets.v,
                        DictGet(ex_data.v, "rest_seconds", PyInt(60)),
                        DictGet(ex_data.v, "notes", None),
                        DictGet(ex_data.v, "superset_id", None)))

\* parse_json, lines 221-266: the loop over "exercises" from item i on
RECURSIVE ExercisesFromJson(_, _, _, _)
ExercisesFromJson(index, items, i, exercises) ==
    IF i > Len(items) THEN Ok(exercises)
    ELSE LET ex == ExerciseFromJson(index, items[i])
         IN  IF IsRaise(ex) THEN ex
             ELSE ExercisesFromJson(index, items, i + 1, Append(exercises, ex.v))

\* parse_json that answers None for an object without "exercises"
parse_json_requires_exercises(index, json_str) ==
    IF json_loads(json_str).t = "dict" /\ ~DictHas(json_loads(json_str).v, "exercises")
    THEN None
    ELSE LET entries == DictGet(json_loads(json_str).v, "exercises", PyList(<<>>))
         IN  IF IsRaise(json_loads(json_str)) \/ json_loads(json_str).t # "dict" THEN None
             ELSE IF ~Iterable(entries) THEN Raise("TypeError")
             ELSE LET exercises == ExercisesFromJson(index, Items(entries), 1, <<>>)
                  IN  IF IsRaise(exercises) THEN exercises
                      ELSE RoutineConfig(
                            DictGet(json_loads(json_str).v, "title",
                                    PyStr(Chars("Treino Importado"))),
                            exercises.v,
                            DictGet(json_loads(json_str).v, "folder_id", None),
                            DictGet(json_loads(json_str).v, "notes", None))

\* WorkoutParser.parse_json
parse_json(index, json_str) ==
    LET data == json_loads(json_str)
    IN  IF IsRaise(data) THEN None
        ELSE IF data.t # "dict" THEN None
        ELSE LET entries == DictGet(data.v, "exercises", PyList(<<>>))
             IN  IF ~Iterable(entries) THEN Raise("TypeError")
                 ELSE LET exercises == ExercisesFromJson(index, Items(entries), 1, <<>>)
                      IN  IF IsRaise(exercises) THEN exercises
                          ELSE RoutineConfig(
                                DictGet(data.v, "title", PyStr(Chars("Treino Importado"))),
                                exercises.v,
                                DictGet(data.v, "folder_id", None),
                                DictGet(data.v, "notes", None))

----------------------------------------------------------------------------
(* The regular expressions of WorkoutParser, matched as re matches them:   *)
(* leftmost start, then the first path in the order of the alternatives,   *)
(* greedy quantifiers longest first, lazy ones shortest first.             *)

\* characters that a string literal of this module cannot hold
EnDash == "ENDASH"
Bullet == "BULLET"
Backtick == "BACKTICK"

\* [A-Za-zÀ-ÿ\s\(\)]
IsNameChar(c) == IsLetter(c) \/ IsSpace(c) \/ c \in {"(", ")", "×"}
\* [A-Za-zÀ-ÿ0-9\s\-–]
IsTitleChar(c) == IsLetter(c) \/ IsDigit(c) \/ IsSpace(c) \/ c \in {"-", EnDash, "×"}

\* \s*: the first position from i on that holds no whitespace
RECURSIVE SkipSpace(_, _)
SkipSpace(s, i) == IF i <= Len(s) /\ IsSpace(s[i]) THEN SkipSpace(s, i + 1) ELSE i

\* the literal word (given in lower case) at i, under re.IGNORECASE
MatchWordI(s, i, word) ==
    /\ i + Len(word) - 1 <= Len(s)
    /\ str_lower(SubSeq(s, i, i + Len(word) - 1)) = Chars(word)

CharAt(s, i) == IF i >= 1 /\ i <= Len(s) THEN s[i] ELSE "EOS"

NoMatch == [ok |-> FALSE]

\* \s*[-:–]\s*(\d+)\s*(?:x|×|X)\s*(\d+) at q
CoreMatch(s, q) ==
    LET a == SkipSpace(s, q)
    IN  IF CharAt(s, a) \notin {"-", ":", EnDash} THEN NoMatch
        ELSE LET b == SkipSpace(s, a + 1)
                 c == DigitsEnd(s, b)
                 d == SkipSpace(s, c)
                 e == SkipSpace(s, d + 1)
                 f == DigitsEnd(s, e)
             IN  IF c = b \/ CharAt(s, d) \notin {"x", "X", "×"} \/ f = e THEN NoMatch
                 ELSE [ok |-> TRUE, sets |-> SubSeq(s, b, c - 1),
                       reps |-> SubSeq(s, e, f - 1), end |-> f]

\* (?:\s*-\s*(\d+))? at q: the group when it takes part, else "" and q
RangeGroup(s, q) ==
    LET a == SkipSpace(s, q)
        b == SkipSpace(s, a + 1)
        c == DigitsEnd(s, b)
    IN  IF CharAt(s, a) = "-" /\ c > b
        THEN [val |-> SubSeq(s, b, c - 1), end |-> c]
        ELSE [val |-> <<>>, end |-> q]

\* (?:\s*(?:@|com)\s*(\d+(?:[.,]\d+)?)\s*(?:kg|Kg|KG))? at q
WeightGroup(s, q) ==
    LET a == SkipSpace(s, q)
        m == IF CharAt(s, a) = "@" THEN a + 1
             ELSE IF MatchWordI(s, a, "com") THEN a + 3 ELSE 0
        b == SkipSpace(s, m)
        c == DigitsEnd(s, b)
        c2 == IF CharAt(s, c) \in {".", ","} /\ DigitsEnd(s, c + 1) > c + 1
              THEN DigitsEnd(s, c + 1) ELSE c
        d == SkipSpace(s, c2)
    IN  IF m > 0 /\ c > b /\ MatchWordI(s, d, "kg")
        THEN [val |-> SubSeq(s, b, c2 - 1), end |-> d + 2]
        ELSE [val |-> <<>>, end |-> q]

\* (?:s|seg|segundos?)? at q: the ends of the unit, in the order re tries them
UnitEnds(s, q) ==
    (IF MatchWordI(s, q, "s") THEN <<q + 1>> ELSE <<>>)
    \o (IF MatchWordI(s, q, "seg") THEN <<q + 3>> ELSE <<>>)
    \o (IF MatchWordI(s, q, "segundos") THEN <<q + 8>> ELSE <<>>)
    \o (IF MatchWordI(s, q, "segundo") THEN <<q + 7>> ELSE <<>>)
    \o <<q>>

\* \s*(?:descanso|rest) at q: its end, or 0
KeywordEnd(s, q) ==
    LET k == SkipSpace(s, q)
    IN  IF MatchWordI(s, k, "descanso") THEN k + 8
        ELSE IF MatchWordI(s, k, "rest") THEN k + 4 ELSE 0

\* (?:\s*[-,]\s*(\d+)\s*(?:s|seg|segundos?)?\s*(?:descanso|rest))? at q
RestGroup(s, q) ==
    LET a == SkipSpace(s, q)
        b == SkipSpace(s, a + 1)
        c == DigitsEnd(s, b)
        units == UnitEnds(s, SkipSpace(s, c))
        good == {i \in 1..Len(units) : KeywordEnd(s, units[i]) > 0}
    IN  IF CharAt(s, a) \in {"-", ","} /\ c > b /\ good # {}
        THEN [val |-> SubSeq(s, b, c - 1),
              end |-> KeywordEnd(s, units[CHOOSE i \in good : \A j \in good : i <= j])]
        ELSE [val |-> <<>>, end |-> q]

\* the match of EXERCISE_PATTERN after the name group, given its parts
TailOfGroups(core, range, weight, rest) ==
    [ok |-> TRUE,
     groups |-> <<core.sets, core.reps, range.val, weight.val, rest.val>>,
     end |-> rest.end]

TailOfWeight(s, core, range, weight) ==
    TailOfGroups(core, range, weight, RestGroup(s, weight.end))

TailOfRange(s, core, range) ==
    TailOfWeight(s, core, range, WeightGroup(s, range.end))

TailOfCore(s, core, full) ==
    IF ~core.ok THEN NoMatch
    ELSE IF ~full
    THEN [ok |-> TRUE, groups |-> <<core.sets, core.reps>>, end |-> core.end]
    ELSE TailOfRange(s, core, RangeGroup(s, core.end))

\* what follows the name group, at q: of EXERCISE_PATTERN (full) or of
\* SIMPLE_PATTERN; the groups as findall gives them
TailMatch(s, q, full) == TailOfCore(s, CoreMatch(s, q), full)

\* the length of the run of whitespace (of digits) that starts at i
SpaceRun(s, i) == SkipSpace(s, i) - i
DigitRun(s, i) == DigitsEnd(s, i) - i

\* ([A-Za-zÀ-ÿ\s\(\)]+?) at ns, lazily: the shortest name, of l characters or
\* more, after which the rest of the pattern matches; 0 when there is none
RECURSIVE NameLenFrom(_, _, _, _)
NameLenFrom(s, ns, l, full) ==
    IF ~IsNameChar(CharAt(s, ns + l - 1)) THEN 0
    ELSE IF TailMatch(s, ns + l, full).ok THEN l
    ELSE NameLenFrom(s, ns, l + 1, full)

NameLen(s, ns, full) == NameLenFrom(s, ns, 1, full)

\* a precedes b in the order re tries the paths
Precedes(a, b) ==
    \E i \in 1..Len(a) : (\A j \in 1..(i - 1) : a[j] = b[j]) /\ a[i] < b[i]

\* the paths of (?:^|\n)\s*[-*•]?\s*(?:\d+\.\s*)? from p, each with the
\* position ns it reaches and a key that orders the paths as re tries them:
\* ^ before \n, more whitespace first, the bullet taken first, the number
\* taken first with more digits and more whitespace first
HeadPaths(s, p) ==
    UNION {UNION {UNION {UNION {
        {[key |-> <<alt, 0 - k1, b2, 0 - k3, 1, 0, 0>>,
          ns |-> p + alt + k1 + (1 - b2) + k3]}
        \cup
        {[key |-> <<alt, 0 - k1, b2, 0 - k3, 0, 0 - nd, 0 - k4>>,
          ns |-> p + alt + k1 + (1 - b2) + k3 + nd + 1 + k4] :
            <<nd, k4>> \in
                {x \in (1..DigitRun(s, p + alt + k1 + (1 - b2) + k3)) \X (0..Len(s)) :
                    /\ CharAt(s, p + alt + k1 + (1 - b2) + k3 + x[1]) = "."
                    /\ x[2] <= SpaceRun(s, p + alt + k1 + (1 - b2) + k3 + x[1] + 1)}}
        : k3 \in 0..SpaceRun(s, p + alt + k1 + (1 - b2))}
        : b2 \in {b \in {0, 1} : b = 1 \/ CharAt(s, p + alt + k1) \in {"-", "*", Bullet}}}
        : k1 \in 0..SpaceRun(s, p + alt)}
        : alt \in {a \in {0, 1} : IF a = 0 THEN p = 1 \/ CharAt(s, p - 1) = "\n"
                                           ELSE CharAt(s, p) = "\n"}}

\* the path re takes first among paths
FirstPath(paths) ==
    CHOOSE h \in paths : \A g \in paths : g = h \/ ~Precedes(g.key, h.key)

\* the match that starts at p with the name of l characters at ns
MatchOfTail(s, p, ns, l, tail) ==
    [ok |-> TRUE, groups |-> <<SubSeq(s, ns, ns + l - 1)>> \o tail.groups,
     start |-> p, end |-> tail.end]

MatchOfName(s, p, ns, l, full) ==
    MatchOfTail(s, p, ns, l, TailMatch(s, ns + l, full))

MatchOfPaths(s, p, full, paths) ==
    IF paths = {} THEN NoMatch
    ELSE MatchOfName(s, p, FirstPath(paths).ns, FirstPath(paths).l, full)

\* the match of EXERCISE_PATTERN (full) or SIMPLE_PATTERN that starts at p
ExerciseMatchAt(s, p, full) ==
    MatchOfPaths(s, p, full,
        {h \in {[key |-> g.key, ns |-> g.ns, l |-> NameLen(s, g.ns, full)] :
                    g \in HeadPaths(s, p)} : h.l > 0})

\* the first position from pos on where (?:^|\n) matches, or 0
NextStart(s, pos) ==
    IF \E p \in pos..(Len(s) + 1) :
            p = 1 \/ CharAt(s, p - 1) = "\n" \/ CharAt(s, p) = "\n"
    THEN CHOOSE p \in pos..(Len(s) + 1) :
            /\ p = 1 \/ CharAt(s, p - 1) = "\n" \/ CharAt(s, p) = "\n"
            /\ \A q \in pos..(p - 1) :
                ~(q = 1 \/ CharAt(s, q - 1) = "\n" \/ CharAt(s, q) = "\n")
    ELSE 0

\* pattern.findall(s): the groups of the successive matches from pos on; a
\* match can only start where (?:^|\n) matches
RECURSIVE FindAllFrom(_, _, _, _)
RECURSIVE FindAllAt(_, _, _, _, _)
FindAllAt(s, p, full, found, m) ==
    IF m.ok THEN FindAllFrom(s, m.end, full, Append(found, m.groups))
    ELSE FindAllFrom(s, p + 1, full, found)

FindAllStart(s, p, full, found) ==
    IF p = 0 THEN found
    ELSE FindAllAt(s, p, full, found, ExerciseMatchAt(s, p, full))

FindAllFrom(s, pos, full, found) == FindAllStart(s, NextStart(s, pos), full, found)

\* EXERCISE_PATTERN.findall(text) and SIMPLE_PATTERN.findall(text)
ExercisePatternFindall(text) == FindAllFrom(text, 1, TRUE, <<>>)
SimplePatternFindall(text) == FindAllFrom(text, 1, FALSE, <<>>)

\* where group 1 of TITLE_PATTERN starts when the marker ends at q: after
\* the whitespace if a title character stands there, else on the last
\* whitespace character; 0 when there is neither
TitleGroupStart(s, q) ==
    LET m == SpaceRun(s, q)
    IN  IF IsTitleChar(CharAt(s, q + m)) THEN q + m
        ELSE IF m >= 1 THEN q + m - 1 ELSE 0

\* \s*(?:#+\s*|Treino\s*[-:]\s*|Rotina\s*[-:]\s*) at q0: where group 1 starts
TitleMarker(s, q0) ==
    LET q == SkipSpace(s, q0)
        hashes == {n \in 1..(Len(s) - q + 1) : \A k \in q..(q + n - 1) : s[k] = "#"}
        label == IF MatchWordI(s, q, "treino") \/ MatchWordI(s, q, "rotina")
                 THEN SkipSpace(s, q + 6) ELSE 0
    IN  IF hashes # {} THEN TitleGroupStart(s, q + Cardinality(hashes))
        ELSE IF label > 0 /\ CharAt(s, label) \in {"-", ":"}
        THEN TitleGroupStart(s, label + 1)
        ELSE 0

\* where group 1 starts in the match of TITLE_PATTERN that starts at p
TitleMatchAt(s, p) ==
    LET atStart == IF p = 1 \/ CharAt(s, p - 1) = "\n" THEN TitleMarker(s, p) ELSE 0
    IN  IF atStart > 0 THEN atStart
        ELSE IF CharAt(s, p) = "\n" THEN TitleMarker(s, p + 1) ELSE 0

\* the end of the run of title characters that starts at i
RECURSIVE TitleEnd(_, _)
TitleEnd(s, i) == IF i <= Len(s) /\ IsTitleChar(s[i]) THEN TitleEnd(s, i + 1) ELSE i

\* parse_text, lines 285-286: group 1 of TITLE_PATTERN.search(text), trimmed,
\* or the placeholder
TitleOf(text) ==
    LET starts == {p \in 1..(Len(text) + 1) : TitleMatchAt(text, p) > 0}
    IN  IF starts = {} THEN Chars("Treino Importado")
        ELSE LET p == CHOOSE p \in starts : \A q \in starts : p <= q
                 gs == TitleMatchAt(text, p)
             IN  str_strip(SubSeq(text, gs, TitleEnd(text, gs) - 1))

\* ```(?:json)?\s*(\{.+?\})\s*``` with re.DOTALL, at p: group 1, or <<>>
FenceAt(s, p) ==
    /\ p + 2 <= Len(s)
    /\ s[p] = Backtick /\ s[p + 1] = Backtick /\ s[p + 2] = Backtick

FencedJsonAt(s, p) ==
    IF ~FenceAt(s, p) THEN <<>>
    ELSE LET q == IF p + 6 <= Len(s) /\ SubSeq(s, p + 3, p + 6) = Chars("json")
                  THEN p + 7 ELSE p + 3
             a == SkipSpace(s, q)
             ends == {e \in (a + 2)..Len(s) :
                        s[e] = "}" /\ FenceAt(s, SkipSpace(s, e + 1))}
         IN  IF CharAt(s, a) # "{" \/ ends = {} THEN <<>>
             ELSE SubSeq(s, a, CHOOSE e \in ends : \A f \in ends : e <= f)

\* group 1 of re.search(that pattern, content), or <<>> when there is no match
FencedJson(content) ==
    LET starts == {p \in 1..Len(content) : FencedJsonAt(content, p) # <<>>}
    IN  IF starts = {} THEN <<>>
        ELSE FencedJsonAt(content, CHOOSE p \in starts : \A q \in starts : p <= q)

----------------------------------------------------------------------------
(* WorkoutParser.parse_text and WorkoutParser.parse *)

\* ds without its trailing zeros
RECURSIVE DropTrailingZeros(_)
DropTrailingZeros(ds) ==
    IF ds # <<>> /\ ds[Len(ds)] = "0"
    THEN DropTrailingZeros(SubSeq(ds, 1, Len(ds) - 1)) ELSE ds

\* float(str(g).replace(",", ".")) of a captured weight
FloatOf(g) ==
    LET n == DigitsEnd(g, 1)
    IN  PyFloat(IntOf(SubSeq(g, 1, n - 1)), DropTrailingZeros(SubSeq(g, n + 1, Len(g))))

\* the groups of one match as findall gives them: strings
MatchTuple(m) == [i \in 1..Len(m) |-> PyStr(m[i])]

\* parse_text, line 295: the groups of a SIMPLE_PATTERN match, padded
PadSimple(m) == <<PyStr(m[1]), PyStr(m[2]), PyStr(m[3]), None, None, None>>

\* a group that is neither None nor ""
Captured(g) == g # None /\ g # PyStr(<<>>)

\* parse_text, lines 298-324: the ExerciseConfig of one match
ExerciseFromMatch(index, match) ==
    LET name == str_strip(match[1].v)
        num_sets == IntOf(match[2].v)
        reps_start == PyInt(IntOf(match[3].v))
        reps_end == IF Captured(match[4]) THEN PyInt(IntOf(match[4].v)) ELSE None
        weight == IF Captured(match[5]) THEN FloatOf(match[5].v) ELSE None
        rest == IF Captured(match[6]) THEN IntOf(match[6].v) ELSE 60
        template_id == find_exercise_id(index, name)
        set == [SetConfig EXCEPT
                    !.reps = IF ~Truthy(reps_end) THEN reps_start ELSE None,
                    !.rep_range_start = IF Truthy(reps_end) THEN reps_start ELSE None,
                    !.rep_range_end = reps_end,
                    !.weight_kg = weight]
    IN  ExerciseConfig(PyStr(name), template_id, [i \in 1..num_sets |-> set],
                       PyInt(rest), None, None)

\* parse_text, line 295: the groups of the SIMPLE_PATTERN matches, padded
PadAll(simple) == [i \in 1..Len(simple) |-> PadSimple(simple[i])]

\* parse_text, lines 292-295: the matches, or those of SIMPLE_PATTERN when
\* there is none
MatchesOrSimple(text, matches) ==
    IF matches # <<>> THEN [i \in 1..Len(matches) |-> MatchTuple(matches[i])]
    ELSE PadAll(SimplePatternFindall(text))

\* parse_text, lines 290-295: the matches the loop runs over
TextMatches(text) == MatchesOrSimple(text, ExercisePatternFindall(text))

\* parse_text, lines 297-324: the loop over the matches
ExercisesFromMatches(index, matches) ==
    [i \in 1..Len(matches) |-> ExerciseFromMatch(index, matches[i])]

\* parse_text without the test "if not exercises: return None"
parse_text_empty_routine(index, text) ==
    RoutineConfig(PyStr(TitleOf(text)),
                  ExercisesFromMatches(index, TextMatches(text)), None, None)

\* parse_text, lines 326-329: None, or the routine of the exercises
RoutineOfExercises(text, exercises) ==
    IF exercises = <<>> THEN None
    ELSE RoutineConfig(PyStr(TitleOf(text)), exercises, None, None)

\* WorkoutParser.parse_text
parse_text(index, text) ==
    RoutineOfExercises(text, ExercisesFromMatches(index, TextMatches(text)))

\* the text extractor consulted before the result of the fenced block
ParseAfterFenced_text_first(index, content, fenced) ==
    IF parse_text(index, content) # None THEN parse_text(index, content)
    ELSE fenced

\* parse, lines 353-357: the routine of the fenced block, or parse_text
ParseAfterFenced(index, content, fenced) ==
    IF IsRaise(fenced) \/ Truthy(fenced) THEN fenced
    ELSE parse_text(index, content)

\* parse, lines 350-352: parse_json on the object of the fenced block
ParseFenced(index, content, block) ==
    ParseAfterFenced(index, content,
        IF block # <<>> THEN parse_json(index, block) ELSE None)

\* parse, lines 346-350: the routine of the raw JSON, or the next strategy
ParseAfterRaw(index, content, raw) ==
    IF IsRaise(raw) \/ Truthy(raw) THEN raw
    ELSE ParseFenced(index, content, FencedJson(content))

\* parse, lines 344-345: parse_json when the content starts with "{"
ParseStripped(index, content) ==
    ParseAfterRaw(index, content,
        IF str_startswith(content, <<"{">>) THEN parse_json(index, content) ELSE None)

\* WorkoutParser.parse
parse(index, content0) == ParseStripped(index, str_strip(content0))

----------------------------------------------------------------------------
(* WorkoutParser.validate_routine *)

PyTuple(items) == [t |-> "tuple", v |-> items]

\* str(x), as an f-string field formats it
str_of(x) ==
    CASE x.t = "str" -> x.v
      [] x.t = "int" -> Chars(ToString(x.v))
      [] x.t = "bool" -> IF x.v THEN Chars("True") ELSE Chars("False")
      [] x.t = "None" -> Chars("None")

\* sep.join(strs) of a list of str
RECURSIVE str_join(_, _)
str_join(sep, strs) ==
    IF strs = <<>> THEN <<>>
    ELSE IF Len(strs) = 1 THEN strs[1]
    ELSE strs[1] \o sep \o str_join(sep, Tail(strs))

TitleRequired == Chars("Título da rotina é obrigatório")
ExercisesRequired == Chars("Rotina deve ter pelo menos um exercício")
\* f"Exercício '{ex.name}' não tem séries configuradas"
NoSetsError(ex) ==
    Chars("Exercício '") \o str_of(ex.name) \o Chars("' não tem séries configuradas")
NotFoundPrefix == Chars("Exercícios não encontrados no Hevy: ")
NotFoundSuffix ==
    Chars(". Você pode criar exercícios customizados ou verificar os nomes.")
\* the aggregate message of lines 382-385
NotFoundError(missing_ids) ==
    NotFoundPrefix \o str_join(Chars(", "), [i \in 1..Len(missing_ids) |-> missing_ids[i].v])
        \o NotFoundSuffix

\* validate_routine without the check of lines 371-372
ErrorsBeforeLoop_title_only(routine) ==
    IF ~Truthy(routine.title) THEN <<TitleRequired>> ELSE <<>>

\* validate_routine, lines 366-372: the errors before the loop
ErrorsBeforeLoop(routine) ==
    (IF ~Truthy(routine.title) THEN <<TitleRequired>> ELSE <<>>)
        \o (IF routine.exercises = <<>> THEN <<ExercisesRequired>> ELSE <<>>)

\* validate_routine, lines 374-377: the names appended to missing_ids
MissingIds(exercises) ==
    SelectSeq([i \in 1..Len(exercises) |->
                  IF ~Truthy(exercises[i].exercise_template_id)
                  THEN <<exercises[i].name>> ELSE <<>>], LAMBDA x : x # <<>>)

\* validate_routine leaving the loop once a problem has been recorded
RECURSIVE ErrorsOfLoop_first_failure(_, _, _)
ErrorsOfLoop_first_failure(exercises, i, errors) ==
    IF i > Len(exercises) \/ errors # <<>> THEN errors
    ELSE ErrorsOfLoop_first_failure(exercises, i + 1,
             IF exercises[i].sets = <<>>
             THEN Append(errors, NoSetsError(exercises[i])) ELSE errors)

\* validate_routine, lines 375-379: the errors appended by the loop from
\* exercise i on
RECURSIVE ErrorsOfLoop(_, _, _)
ErrorsOfLoop(exercises, i, errors) ==
    IF i > Len(exercises) THEN errors
    ELSE ErrorsOfLoop(exercises, i + 1,
             IF exercises[i].sets = <<>>
             THEN Append(errors, NoSetsError(exercises[i])) ELSE errors)

\* validate_routine reporting one "not found" problem per unresolved
\* exercise instead of the aggregate of lines 381-385
ValidateResult_one_per_exercise(errors, missing) ==
    PyTuple(<<PyBool(errors = <<>> /\ missing = <<>>),
              PyList([i \in 1..Len(errors) + Len(missing) |->
                  IF i <= Len(errors) THEN PyStr(errors[i])
                  ELSE PyStr(NotFoundError(<<missing[i - Len(errors)][1]>>))])>>)

\* validate_routine, lines 381-387: the aggregate error and the result
ValidateResult(errors, missing) ==
    IF missing = <<>>
    THEN PyTuple(<<PyBool(errors = <<>>), PyList([i \in 1..Len(errors) |-> PyStr(errors[i])])>>)
    ELSE IF \E i \in 1..Len(missing) : missing[i][1].t # "str"
    THEN Raise("TypeError")
    ELSE PyTuple(<<PyBool(FALSE),
                   PyList([i \in 1..Len(errors) + 1 |->
                       IF i <= Len(errors) THEN PyStr(errors[i])
                       ELSE PyStr(NotFoundError([k \in 1..Len(missing) |-> missing[k][1]]))])>>)

validate_routine(routine) ==
    ValidateResult(ErrorsOfLoop(routine.exercises, 1, ErrorsBeforeLoop(routine)),
                   MissingIds(routine.exercises))

----------------------------------------------------------------------------
(* format_routine_preview *)

\* the characters of the status markers: U+2705, and U+26A0 followed by
\* U+FE0F
CheckMark == "CHECKMARK"
WarningSign == "WARNINGSIGN"
VariationSelector == "VARIATIONSELECTOR16"

\* format_routine_preview, lines 408-415: the descriptor of the sets
SetsInfo(sets) ==
    IF sets # <<>> /\ Truthy(sets[1].rep_range_start) /\ Truthy(sets[1].rep_range_end)
    THEN Chars(ToString(Len(sets))) \o <<"x">> \o str_of(sets[1].rep_range_start)
             \o <<"-">> \o str_of(sets[1].rep_range_end)
    ELSE IF sets # <<>> /\ Truthy(sets[1].reps)
    THEN Chars(ToString(Len(sets))) \o <<"x">> \o str_of(sets[1].reps)
    ELSE Chars(ToString(Len(sets))) \o Chars(" séries")

\* format_routine_preview, line 417
Status(ex) ==
    IF Truthy(ex.exercise_template_id) THEN <<CheckMark>>
    ELSE <<WarningSign, VariationSelector>>

\* format_routine_preview, lines 417-421: the lines of the i-th exercise
ExerciseLines(i, ex) ==
    <<Chars(ToString(i)) \o Chars(". ") \o Status(ex) \o Chars(" **") \o str_of(ex.name)
          \o Chars("** - ") \o SetsInfo(ex.sets) \o Chars(" (") \o str_of(ex.rest_seconds)
          \o Chars("s descanso)")>>
      \o (IF Truthy(ex.notes) THEN <<Chars("   _") \o str_of(ex.notes) \o <<"_">> >>
          ELSE <<>>)

\* format_routine_preview, lines 400-405: the lines before the exercises
HeadLines(routine) ==
    <<Chars("**") \o str_of(routine.title) \o Chars("**")>>
      \o (IF Truthy(routine.notes)
          THEN <<<<"_">> \o str_of(routine.notes) \o <<"_">> >> ELSE <<>>)
      \o << <<>> >>

\* format_routine_preview, lines 407-421: the loop from exercise i on
RECURSIVE PreviewLines(_, _, _)
PreviewLines(exercises, i, lines) ==
    IF i > Len(exercises) THEN lines
    ELSE PreviewLines(exercises, i + 1, lines \o ExerciseLines(i, exercises[i]))

format_routine_preview(routine) ==
    PyStr(str_join(<<"\n">>, PreviewLines(routine.exercises, 1, HeadLines(routine))))

----------------------------------------------------------------------------
(* HevyClient.create_routine and HevyClient.update_routine: the payload    *)
(* handed to requests.post / requests.put                                  *)

\* create_routine, lines 256-263, and update_routine, lines 388-395: the
\* fields copied from a set
CopiedSetData(s) ==
    << <<"type", DictGet(s.v, "type", PyStr(Chars("normal")))>>,
       <<"weight_kg", DictGet(s.v, "weight_kg", None)>>,
       <<"reps", DictGet(s.v, "reps", None)>>,
       <<"distance_meters", DictGet(s.v, "distance_meters", None)>>,
       <<"duration_seconds", DictGet(s.v, "duration_seconds", None)>>,
       <<"custom_metric", DictGet(s.v, "custom_metric", None)>> >>

\* {"start": max(1, reps - 2), "end": reps + 2}
DefaultRange(reps) ==
    PyDict(<< <<"start", PyInt(IF reps.v - 2 > 1 THEN reps.v - 2 ELSE 1)>>,
              <<"end", PyInt(reps.v + 2)>> >>)

\* create_routine, lines 256-272: the wire set of one set
CreateRoutineSet(s) ==
    IF s.t # "dict" THEN Raise("AttributeError")
    ELSE IF DictHas(s.v, "rep_range")
    THEN PyDict(DictSet(CopiedSetData(s), "rep_range", DictAt(s.v, "rep_range")))
    ELSE IF Truthy(DictGet(s.v, "reps", None))
    THEN IF DictAt(s.v, "reps").t \in {"int", "bool"}
         THEN PyDict(DictSet(CopiedSetData(s), "rep_range", DefaultRange(DictAt(s.v, "reps"))))
         ELSE Raise("TypeError")
    ELSE PyDict(CopiedSetData(s))

\* update_routine, lines 388-401: the wire set of one set
UpdateRoutineSet(s) ==
    IF s.t # "dict" THEN Raise("AttributeError")
    ELSE IF DictHas(s.v, "rep_range")
    THEN PyDict(DictSet(CopiedSetData(s), "rep_range", DictAt(s.v, "rep_range")))
    ELSE IF Truthy(DictGet(s.v, "reps", None))
    THEN IF DictAt(s.v, "reps").t \in {"int", "bool"}
         THEN PyDict(DictSet(CopiedSetData(s), "rep_range", DefaultRange(DictAt(s.v, "reps"))))
         ELSE Raise("TypeError")
    ELSE PyDict(CopiedSetData(s))

\* lines 274-280 and 403-409: the wire exercise, given its formatted sets
FormattedExercise(ex, formatted_sets) ==
    IF IsRaise(formatted_sets) THEN formatted_sets
    ELSE IF ~DictHas(ex.v, "exercise_template_id") THEN Raise("KeyError")
    ELSE PyDict(<< <<"exercise_template_id", DictAt(ex.v, "exercise_template_id")>>,
                   <<"superset_id", DictGet(ex.v, "superset_id", None)>>,
                   <<"rest_seconds", DictGet(ex.v, "rest_seconds", PyInt(60))>>,
                   <<"notes", DictGet(ex.v, "notes", None)>>,
                   <<"sets", formatted_sets>> >>)

\* create_routine, lines 252-280: formatted_exercises
CreateRoutineExercises(exercises) ==
    FirstRaiseOr([i \in 1..Len(exercises) |->
        FormattedExercise(exercises[i],
            FirstRaiseOr([k \in 1..Len(DictGet(exercises[i].v, "sets", PyList(<<>>)).v) |->
                CreateRoutineSet(DictGet(exercises[i].v, "sets", PyList(<<>>)).v[k])]))])

\* update_routine, lines 384-409: formatted_exercises
UpdateRoutineExercises(exercises) ==
    FirstRaiseOr([i \in 1..Len(exercises) |->
        FormattedExercise(exercises[i],
            FirstRaiseOr([k \in 1..Len(DictGet(exercises[i].v, "sets", PyList(<<>>)).v) |->
                UpdateRoutineSet(DictGet(exercises[i].v, "sets", PyList(<<>>)).v[k])]))])

\* create_routine, lines 282-289: the payload, given formatted_exercises
CreatePayload(title, formatted_exercises, folder_id, notes) ==
    IF IsRaise(formatted_exercises) THEN formatted_exercises
    ELSE PyDict(<< <<"routine", PyDict(<< <<"title", title>>,
                                          <<"folder_id", folder_id>>,
                                          <<"notes", notes>>,
                                          <<"exercises", formatted_exercises>> >>)>> >>)

create_routine(title, exercises, folder_id, notes) ==
    CreatePayload(title, CreateRoutineExercises(exercises.v), folder_id, notes)

\* x if x is not None else current.get(key)
GivenOrCurrent(x, current, key) == IF x # None THEN x ELSE DictGet(current.v, key, None)

\* update_routine, lines 376-414: the payload, given the routine that
\* get_routine returned and formatted_exercises
UpdatePayload(current, title, formatted_exercises, folder_id, notes) ==
    IF IsRaise(formatted_exercises) THEN formatted_exercises
    ELSE PyDict(<< <<"routine", PyDict(<<
            <<"title", GivenOrCurrent(title, current, "title")>>,
            <<"folder_id", GivenOrCurrent(folder_id, current, "folder_id")>>,
            <<"notes", GivenOrCurrent(notes, current, "notes")>>,
            <<"exercises", formatted_exercises>> >>)>> >>)

update_routine(current, title, exercises, folder_id, notes) ==
    UpdatePayload(current, title,
                  IF exercises # None THEN UpdateRoutineExercises(exercises.v)
                  ELSE DictGet(current.v, "exercises", PyList(<<>>)),
                  folder_id, notes)

----------------------------------------------------------------------------
(* Inputs *)

TitlePool ==
    {Chars("Bench Press"), Chars(" bench PRESS "), Chars("Incline Bench Press"),
     Chars("Press Bench"), Chars("Benchpress"), <<>>}

\* catalog records: a display name under "title", or under "name"
TemplatePool ==
    {<< <<"title", t>> >> : t \in TitlePool}
      \cup {<< <<"name", Chars("Bench Press")>> >>}

TemplateId(i) == Chars("ex" \o ToString(i))

\* the catalogs of the resolver runs: up to MaxCatalog records, keyed "ex1",
\* "ex2", ... in order
Catalogs ==
    UNION {{[i \in 1..n |-> <<TemplateId(i), f[i]>>] : f \in [1..n -> TemplatePool]}
            : n \in 0..MaxCatalog}

\* a catalog with the given values under the given field, keyed in order
CatalogOf(field, titles) ==
    [i \in 1..Len(titles) |-> <<TemplateId(i), << <<field, Chars(titles[i])>> >> >>]

\* the catalogs of the parser runs: none, a single record that carries its
\* name under "name", the same under "title", and the catalog of the tests
NameCatalog == CatalogOf("name", <<"Bench Press">>)
TitleCatalog == CatalogOf("title", <<"Bench Press">>)
TestCatalog ==
    CatalogOf("title", <<"Bench Press", "Incline Bench Press", "Lat Pulldown",
                         "Barbell Squat", "Supino Reto">>)
ParserCatalogs == {<<>>, NameCatalog, TitleCatalog, TestCatalog}

QueryPool ==
    TitlePool \cup
    {Chars("BENCH PRESS"), Chars("Bench"), Chars("Leg Press"), Chars("inc"),
     Chars("Press Incline Bench"),
     Chars("Exercicio Inventado XYZ"), Chars("  ")}

OptInts == {None} \cup {PyInt(n) : n \in 0..MaxReps}

SetConfigs ==
    {[SetConfig EXCEPT !.reps = r, !.rep_range_start = s, !.rep_range_end = e,
                       !.weight_kg = w] :
        r \in OptInts, s \in OptInts, e \in OptInts, w \in {None, PyInt(80)}}

\* JSON documents with one abbreviated entry: "sets" an integer, "reps"
\* absent or an integer, "rep_range" absent, a range or null, "weight_kg"
\* absent or a number
AbbreviatedDocs ==
    {Chars("{\"title\": \"Push Day\", \"exercises\": [{\"name\": \"Bench Press\", \"sets\": "
            \o ToString(n) \o reps \o range \o weight \o "}]}") :
        n \in 0..MaxSets,
        reps \in {""} \cup {", \"reps\": " \o ToString(r) : r \in 0..MaxReps},
        range \in {"", ", \"rep_range\": {\"start\": 1, \"end\": 2}",
                   ", \"rep_range\": null"},
        weight \in {"", ", \"weight_kg\": 80"}}

PushDayDoc ==
    "{\"title\": \"Push Day\", \"exercises\": [{\"name\": \"Bench Press\", \"sets\": 3, \"reps\": 10}]}"

\* other documents: of other shapes, malformed, or no JSON at all
OtherDocs ==
    {PushDayDoc,
     "{}",
     "{\"title\": \"A\"}",
     "{\"title\": \"A\", \"exercises\": []}",
     "[1, 2]",
     "{\"title\": ",
     "Supino: 3x10",
     "{\"exercises\": 5}",
     "{\"exercises\": [3]}",
     "{\"exercises\": [{\"name\": \"Squat\", \"sets\": null}]}",
     "{\"exercises\": [{\"name\": \"Squat\", \"sets\": \"ab\"}]}",
     "{\"exercises\": [{\"name\": \"Squat\", \"sets\": [5]}]}",
     "{\"exercises\": [{\"name\": \"Squat\", \"sets\": true}]}",
     "{\"exercises\": [{\"name\": \"Squat\", \"sets\": -1}]}",
     "{\"exercises\": [{\"sets\": 1}]}",
     "{\"exercises\": [{\"name\": \"Squat\"}]}",
     "{\"exercises\": [{\"name\": \"Squat\", \"sets\": [{\"reps\": 8, \"weight_kg\": 100}, {\"rep_range\": {\"start\": 6, \"end\": 8}}]}]}",
     "{\"exercises\": [{\"name\": \"Squat\", \"sets\": [{\"reps\": 8, \"rep_range\": {\"start\": 6, \"end\": 8}}]}]}",
     "{\"exercises\": [{\"name\": \"Squat\", \"sets\": [{\"rep_range\": null}]}]}",
     "{\"exercises\": [{\"name\": \"Bench Press\", \"exercise_template_id\": \"zz9\", \"sets\": 1}]}",
     "{\"exercises\": [{\"name\": 5, \"exercise_template_id\": \"zz9\", \"sets\": 1}]}",
     "{\"exercises\": [{\"name\": \"Bench Press\", \"exercise_template_id\": \"\", \"sets\": 1}, {\"name\": \"Lat Pulldown\", \"exercise_template_id\": null, \"sets\": 1}]}",
     "{\"title\": \"Full\", \"notes\": \"n\", \"folder_id\": 7, \"exercises\": [{\"name\": \"Supino Reto\", \"sets\": 2, \"reps\": 8, \"rest_seconds\": 90}, {\"name\": \"Lat Pulldown\", \"sets\": 1}]}"}

JsonDocs == AbbreviatedDocs \cup {Chars(d) : d \in OtherDocs}

\* one written exercise line: set count, rep number, range end or nothing,
\* weight and rest or nothing
GeneratedLines ==
    {Chars("- Squat: " \o ToString(n) \o "x" \o ToString(a) \o range \o tail) :
        n \in 1..MaxSets, a \in 0..MaxReps,
        range \in {""} \cup {"-" \o ToString(b) : b \in 0..MaxReps},
        tail \in {"", " @ 80kg - 90s descanso"}}

SquatLine == "- Squat: 4x6-8 @ 100kg - 90s descanso"
NoWorkout == "não é json nem treino"

\* other texts: several lines, headings, line breaks inside an exercise
OtherTexts ==
    {SquatLine,
     NoWorkout,
     "",
     "Supino:\n3x10",
     "A: 3x10\n- 12. Rosca: 3x12",
     "Treino A\nSupino: 3x10",
     "Treino: Push Day\n- Bench Press: 3x10\n- Lat Pulldown: 4x8-12\n1. Leg Curl - 2x15",
     "# Treino A\n\n1. Supino Reto: 3x10\n2. Agachamento: 4x8",
     "Supino: 3x10 - 90s descanso",
     "Supino Reto: 3 x 10 com 62,5kg, 45 seg rest",
     "Bench Press 3x10",
     "x: 0x5"}

\* lines with scalar reps and a rest annotation after a dash, without weight
RestOnlyLines ==
    {Chars("Supino: " \o ToString(n) \o "x" \o ToString(r) \o " - 90s descanso") :
        n \in 1..MaxSets, r \in 1..MaxReps}

Texts == GeneratedLines \cup RestOnlyLines \cup {Chars(t) : t \in OtherTexts}

Fence == <<Backtick, Backtick, Backtick>>

\* a fenced block around a document, with or without the language tag
Fenced(before, tag, doc, after) ==
    Chars(before) \o Fence \o Chars(tag \o "\n" \o doc \o "\n") \o Fence \o Chars(after)

\* contents given to parse: raw JSON, JSON in a fenced block, text
Contents ==
    {Chars(d) : d \in OtherDocs}
      \cup {Chars(t) : t \in OtherTexts}
      \cup {Chars("  " \o PushDayDoc \o "\n"),
            Chars("{\"title\": \"A\"}\n- Squat: 3x10"),
            Fenced("Aqui:\n", "json", PushDayDoc, "\nBom treino!"),
            Fenced("", "", PushDayDoc, ""),
            Fenced("", "json", "{}", "\n- Squat: 3x10"),
            Fenced("- Squat: 3x10\n", "", "{\"title\": \"A\"}", ""),
            Fenced("- Squat: 3x10\n", "json", "[1, 2]", ""),
            Fenced("", "json", "{\"title\": ", "\n- Squat: 3x10"),
            Fenced("", "json", "{\"exercises\": 5}", "")}

----------------------------------------------------------------------------
(* Routines given to validate_routine, format_routine_preview and         *)
(* RoutineConfig.to_api_format                                             *)

\* the first set of an exercise: no reps, scalar reps (0 included), a range
\* (with a bound of 0 included), reps and a weight next to a range
FirstSets ==
    {[SetConfig EXCEPT !.reps = r] : r \in {None, PyInt(0), PyInt(MaxReps)}}
      \cup {[SetConfig EXCEPT !.rep_range_start = PyInt(r[1]), !.rep_range_end = PyInt(r[2])] :
                r \in {<<1, MaxReps>>, <<0, MaxReps>>, <<1, 0>>}}
      \cup {[SetConfig EXCEPT !.reps = PyInt(1), !.rep_range_start = PyInt(1),
                              !.rep_range_end = PyInt(MaxReps), !.weight_kg = PyInt(80)]}

\* the sets after the first
LaterSets ==
    {[SetConfig EXCEPT !.reps = PyInt(MaxReps)],
     [SetConfig EXCEPT !.rep_range_start = PyInt(1), !.rep_range_end = PyInt(MaxReps),
                       !.type = PyStr(Chars("warmup"))]}

SetLists ==
    UNION {{sets \in [1..n -> FirstSets \cup LaterSets] :
               /\ sets[1] \in FirstSets
               /\ \A i \in 2..n : sets[i] \in LaterSets} : n \in 1..MaxSets}
      \cup {<<>>}

ExerciseNames == {Chars("Squat"), Chars("Bench Press")}
TemplateIds == {None, PyStr(TemplateId(1))}

\* every exercise of a one-exercise routine
Exercises ==
    {ExerciseConfig(PyStr(name), id, sets, PyInt(60), None, None) :
        name \in ExerciseNames, id \in TemplateIds, sets \in SetLists}

\* MaxSets sets: scalar reps first, then warm-up sets with a range
WorkingSets ==
    [i \in 1..MaxSets |->
        IF i = 1 THEN [SetConfig EXCEPT !.reps = PyInt(MaxReps)]
        ELSE [SetConfig EXCEPT !.rep_range_start = PyInt(1), !.rep_range_end = PyInt(MaxReps),
                               !.type = PyStr(Chars("warmup"))]]

\* the exercises of the longer routines: with or without sets, with or
\* without a template id, with or without notes
ListedExercises ==
    {ExerciseConfig(PyStr(name), id, sets, PyInt(90),
                    IF id = None THEN PyStr(Chars("devagar")) ELSE None, None) :
        name \in ExerciseNames, id \in TemplateIds, sets \in {<<>>, WorkingSets}}

ExerciseLists ==
    {<<>>} \cup {<<ex>> : ex \in Exercises}
      \cup UNION {[1..n -> ListedExercises] : n \in 2..MaxExercises}

\* title and notes of the routines
RoutineHeads ==
    {<<PyStr(<<>>), None>>, <<PyStr(Chars("Treino A")), None>>,
     <<PyStr(Chars("Treino A")), PyStr(Chars("dia pesado"))>>}

Routines ==
    {RoutineConfig(head[1], exercises, None, head[2]) :
        head \in RoutineHeads, exercises \in ExerciseLists}

----------------------------------------------------------------------------
(* Exercises given to HevyClient.create_routine and update_routine *)

\* sets written as dicts: reps absent, 0 or MaxReps, with or without an
\* explicit range start..end, start = 0 included
SetDicts ==
    {reps \o range :
        reps \in {<<>>} \cup {<< <<"reps", PyInt(r)>> >> : r \in {0, MaxReps}},
        range \in {<<>>} \cup
            {<< <<"rep_range", PyDict(<< <<"start", PyInt(r[1])>>, <<"end", PyInt(r[2])>> >>)>> >> :
                r \in {<<0, MaxReps>>, <<1, MaxReps>>, <<MaxReps, MaxReps>>}}}

\* the exercises of the routines the dashboard sends: the wire form of a
\* one-exercise routine; and one exercise with one set written as a dict
ClientExercises ==
    {DictAt(RoutineConfig_to_api_format(RoutineConfig(PyStr(Chars("Treino A")), <<ex>>, None, None)).v,
            "exercises") : ex \in Exercises}
      \cup {PyList(<<PyDict(<< <<"exercise_template_id", PyStr(TemplateId(1))>>,
                               <<"sets", PyList(<<PyDict(d)>>)>> >>)>>) : d \in SetDicts}

\* the routine get_routine returns to update_routine
CurrentRoutines ==
    {PyDict(<< <<"routine", PyDict(<<>>)>> >>),
     PyDict(<< <<"routine", PyDict(<< <<"title", PyStr(Chars("Treino B"))>>,
                                      <<"notes", PyStr(Chars("antigo"))>>,
                                      <<"exercises", PyList(<<>>)>> >>)>> >>)}

----------------------------------------------------------------------------
(* ModelRouter (model_router.py) *)

\* ModelConfig(name, api_key_env, priority)
ModelConfig(name, api_key_env, priority) ==
    [name |-> name, api_key_env |-> api_key_env, priority |-> priority]

\* DEFAULT_MODELS, lines 41-72
DEFAULT_MODELS ==
    <<ModelConfig(Chars("gemini/gemma-3-4b-it"), "GEMINI_API_KEY", 1),
      ModelConfig(Chars("gemini/gemini-2.0-flash-lite"), "GEMINI_API_KEY", 2),
      ModelConfig(Chars("groq/llama-3.1-8b-instant"), "GROQ_API_KEY", 3),
      ModelConfig(Chars("groq/llama-3.3-70b-versatile"), "GROQ_API_KEY", 4),
      ModelConfig(Chars("gpt-4o-mini"), "OPENAI_API_KEY", 5)>>

\* the environment variables a ModelConfig reads its key from
ApiKeyEnvs == {"GEMINI_API_KEY", "GROQ_API_KEY", "OPENAI_API_KEY"}

\* the order of Python on tuples of integers of the same length
KeyLess(a, b) ==
    \E k \in 1..Len(a) : a[k] < b[k] /\ \A j \in 1..(k - 1) : a[j] = b[j]

\* the positions of the keys in the order of a stable sort
RECURSIVE SortedIndices(_, _)
SortedIndices(keys, remaining) ==
    IF remaining = {} THEN <<>>
    ELSE LET i == CHOOSE i \in remaining :
                      \A j \in remaining :
                          \/ KeyLess(keys[i], keys[j])
                          \/ (keys[i] = keys[j] /\ i <= j)
         IN <<i>> \o SortedIndices(keys, remaining \ {i})

\* sorted(list, key=...), keys[i] being the key of list[i]
sorted(list, keys) ==
    [k \in 1..Len(list) |-> list[SortedIndices(keys, 1..Len(list))[k]]]

\* ModelRouter().models after __post_init__ (line 109): DEFAULT_MODELS sorted
\* by priority
models ==
    sorted(DEFAULT_MODELS, [i \in 1..Len(DEFAULT_MODELS) |-> <<DEFAULT_MODELS[i].priority>>])

\* ModelConfig.is_available, lines 30-38, in an environment given as the set
\* of the variables that hold a non-empty key
is_available(m, environ) == m.api_key_env \in environ

\* get_available_models, lines 111-113
get_available_models(environ) ==
    SelectSeq(models, LAMBDA m : is_available(m, environ))

\* lines 150-154: with a memorised model the available ones are sorted by
\* (m.name != self._last_successful_model, m.priority)
AttemptOrder(avail, last) ==
    IF Truthy(last)
    THEN sorted(avail, [i \in 1..Len(avail) |->
                           <<IF avail[i].name # last.v THEN 1 ELSE 0, avail[i].priority>>])
    ELSE avail

\* what one attempt can do: litellm.completion returns a response whose
\* content is read (line 175); it raises (lines 177-188); or it returns a
\* response without choices, so that reading the content raises IndexError
\* inside the try (line 175, caught at line 186)
Outcomes == {"ok", "RateLimitError", "APIError", "IndexError"}

\* the outcomes in which litellm.completion returned a response
Completed == {"ok", "IndexError"}

\* the entry of errors of a failed attempt, lines 177-188
ErrorOf(model_config, outcome) ==
    <<model_config.name,
      CASE outcome = "RateLimitError" -> "Rate limit"
        [] outcome = "APIError" -> "API Error"
        [] OTHER -> outcome>>

----------------------------------------------------------------------------
(* The state machine: a parser is constructed over a catalog, then serves   *)
(* calls one after the other; the caller takes each result before the next  *)
(* call.                                                                    *)

\* ModelRouter(): no model memorised (line 89), no call running
RouterInit ==
    /\ last_successful_model = None
    /\ available = <<>>
    /\ router_errors = <<>>

\* WorkoutParser.__init__
Init ==
    /\ exercise_templates \in ParserCatalogs
    /\ name_to_id = build_name_index(exercise_templates)
    /\ op = "idle"
    /\ arg = None
    /\ result = None
    /\ RouterInit

CallFindExerciseId ==
    /\ op = "idle"
    /\ \E name \in QueryPool :
        /\ op' = "find_exercise_id"
        /\ arg' = name
        /\ result' = find_exercise_id(name_to_id, name)
        /\ name_to_id' = NameIndexAfterFind(name_to_id, name)
    /\ UNCHANGED <<exercise_templates, routerVars>>

CallSetToApiFormat ==
    /\ op = "idle"
    /\ \E s \in SetConfigs :
        /\ op' = "SetConfig.to_api_format"
        /\ arg' = s
        /\ result' = SetConfig_to_api_format(s)
    /\ UNCHANGED <<exercise_templates, name_to_id, routerVars>>

CallParseJson ==
    /\ op = "idle"
    /\ \E json_str \in JsonDocs :
        /\ op' = "parse_json"
        /\ arg' = json_str
        /\ result' = parse_json(name_to_id, json_str)
    /\ UNCHANGED <<exercise_templates, name_to_id, routerVars>>

CallParseText ==
    /\ op = "idle"
    /\ \E text \in Texts :
        /\ op' = "parse_text"
        /\ arg' = text
        /\ result' = parse_text(name_to_id, text)
    /\ UNCHANGED <<exercise_templates, name_to_id, routerVars>>

CallParse ==
    /\ op = "idle"
    /\ \E content \in Contents :
        /\ op' = "parse"
        /\ arg' = content
        /\ result' = parse(name_to_id, content)
    /\ UNCHANGED <<exercise_templates, name_to_id, routerVars>>

CallValidateRoutine ==
    /\ op = "idle"
    /\ \E routine \in Routines :
        /\ op' = "validate_routine"
        /\ arg' = routine
        /\ result' = validate_routine(routine)
    /\ UNCHANGED <<exercise_templates, name_to_id, routerVars>>

CallFormatRoutinePreview ==
    /\ op = "idle"
    /\ \E routine \in Routines :
        /\ op' = "format_routine_preview"
        /\ arg' = routine
        /\ result' = format_routine_preview(routine)
    /\ UNCHANGED <<exercise_templates, name_to_id, routerVars>>

CallRoutineToApiFormat ==
    /\ op = "idle"
    /\ \E routine \in Routines :
        /\ op' = "RoutineConfig.to_api_format"
        /\ arg' = routine
        /\ result' = RoutineConfig_to_api_format(routine)
    /\ UNCHANGED <<exercise_templates, name_to_id, routerVars>>

\* HevyClient.create_routine(title=..., exercises=...): result is the payload
\* posted
CallCreateRoutine ==
    /\ op = "idle"
    /\ \E exercises \in ClientExercises :
        /\ op' = "create_routine"
        /\ arg' = exercises
        /\ result' = create_routine(PyStr(Chars("Treino A")), exercises, None, None)
    /\ UNCHANGED <<exercise_templates, name_to_id, routerVars>>

\* HevyClient.update_routine(routine_id, title=..., exercises=...): result is
\* the payload put, given what get_routine answered
CallUpdateRoutine ==
    /\ op = "idle"
    /\ \E exercises \in ClientExercises \cup {None}, current \in CurrentRoutines,
          title \in {None, PyStr(Chars("Treino A"))} :
        /\ op' = "update_routine"
        /\ arg' = exercises
        /\ result' = update_routine(DictGet(current.v, "routine", PyDict(<<>>)),
                                    title, exercises, None, None)
    /\ UNCHANGED <<exercise_templates, name_to_id, routerVars>>

\* the caller takes the result; the parser is ready for the next call
Return ==
    /\ op # "idle"
    /\ op' = "idle"
    /\ arg' = None
    /\ result' = None
    /\ UNCHANGED <<exercise_templates, name_to_id, routerVars>>

Next ==
    \/ CallFindExerciseId
    \/ CallSetToApiFormat
    \/ CallParseJson
    \/ CallParseText
    \/ CallParse
    \/ CallValidateRoutine
    \/ CallFormatRoutinePreview
    \/ CallRoutineToApiFormat
    \/ CallCreateRoutine
    \/ CallUpdateRoutine
    \/ Return

Spec == Init /\ [][Next]_vars

\* the resolver alone, over every catalog of up to MaxCatalog records
InitResolver ==
    /\ exercise_templates \in Catalogs
    /\ name_to_id = build_name_index(exercise_templates)
    /\ op = "idle"
    /\ arg = None
    /\ result = None
    /\ RouterInit

NextResolver ==
    \/ CallFindExerciseId
    \/ Return

SpecResolver == InitResolver /\ [][NextResolver]_vars

\* the router alone: generate is called in an environment, its loop makes one
\* attempt after the other, and the caller takes what it returned or raised

\* result while the loop of generate runs
Pending == [t |-> "pending"]

\* the text of a response
Content_oi == PyStr(Chars("oi"))

InitRouter ==
    /\ exercise_templates = <<>>
    /\ name_to_id = build_name_index(<<>>)
    /\ op = "idle"
    /\ arg = None
    /\ result = None
    /\ RouterInit

\* generate, lines 142-156: up to the loop
CallGenerate ==
    /\ op = "idle"
    /\ \E environ \in SUBSET ApiKeyEnvs :
        LET avail == get_available_models(environ) IN
        /\ op' = "generate"
        /\ arg' = [environ |-> environ, last_successful_model |-> last_successful_model]
        /\ available' = IF avail = <<>> THEN <<>> ELSE AttemptOrder(avail, last_successful_model)
        /\ result' = IF avail = <<>> THEN Raise("RuntimeError") ELSE Pending
    /\ router_errors' = <<>>
    /\ UNCHANGED <<exercise_templates, name_to_id, last_successful_model>>

\* generate, lines 158-194: one turn of the loop, and the raise after the
\* last one
Attempt ==
    /\ op = "generate"
    /\ result = Pending
    /\ \E outcome \in Outcomes :
        LET model_config == available[Len(router_errors) + 1] IN
        /\ last_successful_model' =
               IF outcome \in Completed THEN PyStr(model_config.name)
               ELSE last_successful_model
        /\ router_errors' =
               IF outcome = "ok" THEN router_errors
               ELSE Append(router_errors, ErrorOf(model_config, outcome))
        /\ result' =
               IF outcome = "ok" THEN Content_oi
               ELSE IF Len(router_errors) + 1 = Len(available) THEN Raise("RuntimeError")
               ELSE Pending
    /\ UNCHANGED <<exercise_templates, name_to_id, op, arg, available>>

\* the caller takes what generate returned or raised
ReturnGenerate ==
    /\ op = "generate"
    /\ result # Pending
    /\ op' = "idle"
    /\ arg' = None
    /\ result' = None
    /\ available' = <<>>
    /\ router_errors' = <<>>
    /\ UNCHANGED <<exercise_templates, name_to_id, last_successful_model>>

NextRouter ==
    \/ CallGenerate
    \/ Attempt
    \/ ReturnGenerate

SpecRouter == InitRouter /\ [][NextRouter]_vars

----------------------------------------------------------------------------
(* Claims about the resolver *)

\* the query of a find_exercise_id call, lower-cased and trimmed
QueryLower == str_strip(str_lower(arg))

\* the lower-cased trimmed title of the i-th catalog record
CatalogName(i) == str_strip(str_lower(TemplateTitle(exercise_templates[i][2])))

\* the catalog records whose title is indexed under the query
ExactEntries ==
    {i \in 1..Len(exercise_templates) :
        CatalogName(i) # <<>> /\ CatalogName(i) = QueryLower}

\* the catalog records whose indexed title contains the query or is contained
\* in it
SubstringEntries ==
    {i \in 1..Len(exercise_templates) :
        /\ CatalogName(i) # <<>>
        /\ \/ str_contains(CatalogName(i), QueryLower)
           \/ str_contains(QueryLower, CatalogName(i))}

\* the catalog records whose indexed title shares a word with the query
TokenEntries ==
    {i \in 1..Len(exercise_templates) :
        /\ CatalogName(i) # <<>>
        /\ str_split_set(CatalogName(i)) \cap str_split_set(QueryLower) # {}}

\* C1: when some indexed title equals the query (both lower-cased and
\* trimmed), find_exercise_id returns the id indexed under that title (the id
\* of the last catalog record with that title), whatever entries match by
\* substring or shared tokens and wherever they stand in the catalog.
C1_ExactMatchWins ==
    (op = "find_exercise_id" /\ ExactEntries # {}) =>
        result = PyStr(exercise_templates[
                    CHOOSE i \in ExactEntries : \A j \in ExactEntries : j <= i][1])

\* an exact match answered although an earlier record matches by substring
C1_Witness ==
    /\ op = "find_exercise_id"
    /\ ExactEntries = {2}
    /\ 1 \in SubstringEntries
    /\ result = PyStr(TemplateId(2))

\* C2 as stated: a query sharing no token with any indexed title resolves to
\* None.
C2_NoTokenOverlapIsNone ==
    (op = "find_exercise_id" /\ TokenEntries = {}) => result = None

\* C2 as amended: a query that shares no token with any indexed title, and
\* that neither contains nor is contained in any indexed title, resolves to
\* None.
C2_NoOverlapNoSubstringIsNone ==
    (op = "find_exercise_id" /\ TokenEntries = {} /\ SubstringEntries = {})
        => result = None

\* a query answered None against a catalog with indexed titles
C2_Witness ==
    /\ op = "find_exercise_id"
    /\ name_to_id # <<>>
    /\ QueryLower # <<>>
    /\ TokenEntries = {}
    /\ SubstringEntries = {}
    /\ result = None

----------------------------------------------------------------------------
(* Claims about SetConfig.to_api_format *)

IsInt(x) == x.t = "int"

WireHasRange == DictHas(result.v, "rep_range")
WireRange == DictAt(result.v, "rep_range")
RangeOf(start, end) == PyDict(<< <<"start", PyInt(start)>>, <<"end", PyInt(end)>> >>)

\* C3: a SetConfig with reps = R >= 0 and no explicit range converts with
\* rep_range = {start: max(1, R-2), end: R+2}.
C3_DefaultRangeFromReps ==
    (/\ op = "SetConfig.to_api_format"
     /\ IsInt(arg.reps)
     /\ arg.rep_range_start = None
     /\ arg.rep_range_end = None)
        => /\ ~IsRaise(result)
           /\ WireHasRange
           /\ WireRange = RangeOf(IF arg.reps.v - 2 > 1 THEN arg.reps.v - 2 ELSE 1,
                                  arg.reps.v + 2)

\* C4: a SetConfig with an explicit range start <= end converts with exactly
\* that range, whether or not reps is set.
C4_ExplicitRangeKept ==
    (/\ op = "SetConfig.to_api_format"
     /\ IsInt(arg.rep_range_start)
     /\ IsInt(arg.rep_range_end)
     /\ arg.rep_range_start.v <= arg.rep_range_end.v)
        => /\ ~IsRaise(result)
           /\ WireHasRange
           /\ WireRange = RangeOf(arg.rep_range_start.v, arg.rep_range_end.v)

\* C5: in the converted set, rep_range is absent or a record with integer
\* start and end, never null; it is absent when the SetConfig has neither
\* reps nor a range.
C5_RangeAbsentOrRecord ==
    op = "SetConfig.to_api_format" =>
        /\ ~IsRaise(result)
        /\ WireHasRange =>
            /\ WireRange.t = "dict"
            /\ DictHas(WireRange.v, "start") /\ IsInt(DictAt(WireRange.v, "start"))
            /\ DictHas(WireRange.v, "end") /\ IsInt(DictAt(WireRange.v, "end"))
        /\ (arg.reps = None /\ arg.rep_range_start = None /\ arg.rep_range_end = None)
            => ~WireHasRange

\* a set with neither reps nor a range, converted without the key
C5_Witness ==
    /\ op = "SetConfig.to_api_format"
    /\ arg.reps = None /\ arg.rep_range_start = None /\ arg.rep_range_end = None
    /\ ~WireHasRange

----------------------------------------------------------------------------
(* Claims about parse_json *)

\* the document of a parse_json call, as json.loads reads it
Doc == json_loads(arg)

\* the entries of its "exercises" list
DocEntries ==
    IF Doc.t = "dict" /\ DictGet(Doc.v, "exercises", PyList(<<>>)).t = "list"
    THEN DictGet(Doc.v, "exercises", PyList(<<>>)).v ELSE <<>>

\* an entry whose "sets" is an integer N >= 0
IsAbbreviated(e) ==
    /\ e.t = "dict"
    /\ DictHas(e.v, "sets")
    /\ DictAt(e.v, "sets").t = "int"
    /\ DictAt(e.v, "sets").v >= 0

\* C6: for every JSON object with an exercise entry whose sets is an integer
\* N >= 0, parse_json produces for that entry an exercise with exactly N
\* SetConfigs, all equal to one another, of type normal, with reps taken from
\* the entry's reps field, or 10 when that field is absent.
C6_AbbreviatedSets ==
    op = "parse_json" =>
        \A i \in 1..Len(DocEntries) :
            IsAbbreviated(DocEntries[i]) =>
                /\ IsRoutine(result)
                /\ Len(result.exercises) >= i
                /\ LET sets == result.exercises[i].sets
                       e == DocEntries[i].v
                   IN  /\ Len(sets) = DictAt(e, "sets").v
                       /\ \A k \in 1..Len(sets) :
                            /\ sets[k] = sets[1]
                            /\ sets[k].type = PyStr(Chars("normal"))
                            /\ sets[k].reps = DictGet(e, "reps", PyInt(10))

\* the routine "Push Day" with one exercise of 3 sets of 10 reps, resolved
\* to id
PushDayRoutine(id) ==
    /\ IsRoutine(result)
    /\ result.title = PyStr(Chars("Push Day"))
    /\ Len(result.exercises) = 1
    /\ result.exercises[1].exercise_template_id = id
    /\ Len(result.exercises[1].sets) = 3
    /\ \A k \in 1..3 : result.exercises[1].sets[k].reps = PyInt(10)

\* C7 as stated: with the catalog {"ex1": {"name": "Bench Press"}}, the
\* Push Day document parses to a routine whose exercise is resolved to "ex1".
C7_NameFieldResolves ==
    (op = "parse_json" /\ arg = Chars(PushDayDoc) /\ exercise_templates = NameCatalog)
        => PushDayRoutine(PyStr(TemplateId(1)))

\* C7 as amended: the Push Day document parses to the routine "Push Day"
\* with one exercise of 3 sets of 10 reps; the exercise is resolved to "ex1"
\* with the catalog {"ex1": {"title": "Bench Press"}}, and is left
\* unresolved with the catalog {"ex1": {"name": "Bench Press"}}.
C7_TitleFieldResolves ==
    (op = "parse_json" /\ arg = Chars(PushDayDoc)) =>
        /\ exercise_templates = TitleCatalog => PushDayRoutine(PyStr(TemplateId(1)))
        /\ exercise_templates = NameCatalog => PushDayRoutine(None)

\* the Push Day document parsed against the catalog that carries "title"
C7_Witness ==
    /\ op = "parse_json"
    /\ arg = Chars(PushDayDoc)
    /\ exercise_templates = TitleCatalog
    /\ PushDayRoutine(PyStr(TemplateId(1)))

----------------------------------------------------------------------------
(* Claims about parse_text and parse *)

\* the groups of the matches of a parse_text call
TextGroups == TextMatches(arg)

\* the SetConfig the claim gives for rep number a and range end b (None when
\* no range is written)
SetOfLine(a, b, weight) ==
    [SetConfig EXCEPT !.reps = IF b = None THEN a ELSE None,
                      !.rep_range_start = IF b = None THEN None ELSE a,
                      !.rep_range_end = b,
                      !.weight_kg = weight]

\* C8: for every match of parse_text with set count N, rep number A and,
\* when a range is written, range end B (0 included), the exercise has N
\* identical SetConfigs, with rep_range_start = A, rep_range_end = B and no
\* reps when a range was captured, and reps = A and no range otherwise; the
\* line "- Squat: 4x6-8 @ 100kg - 90s descanso" gives one exercise "Squat"
\* with 4 sets of range 6-8, weight 100 and rest 90.
C8_TextLineSets ==
    op = "parse_text" =>
        /\ \A i \in 1..Len(TextGroups) :
            LET m == TextGroups[i]
                a == PyInt(IntOf(m[3].v))
                b == IF Captured(m[4]) THEN PyInt(IntOf(m[4].v)) ELSE None
            IN  /\ IsRoutine(result)
                /\ Len(result.exercises) >= i
                /\ Len(result.exercises[i].sets) = IntOf(m[2].v)
                /\ \A k \in 1..Len(result.exercises[i].sets) :
                    result.exercises[i].sets[k]
                        = SetOfLine(a, b, result.exercises[i].sets[k].weight_kg)
        /\ arg = Chars(SquatLine) =>
            /\ IsRoutine(result)
            /\ Len(result.exercises) = 1
            /\ result.exercises[1].name = PyStr(Chars("Squat"))
            /\ result.exercises[1].rest_seconds = PyInt(90)
            /\ result.exercises[1].sets
                = [k \in 1..4 |-> SetOfLine(PyInt(6), PyInt(8), PyFloat(100, <<>>))]

\* a routine without exercises
EmptyRoutine == IsRoutine(result) /\ result.exercises = <<>>

\* the JSON texts parse hands to parse_json: the trimmed content when it
\* starts with "{", and the object of the first fenced block
JsonSources ==
    LET content == str_strip(arg)
    IN  (IF str_startswith(content, <<"{">>) THEN {content} ELSE {})
          \cup (IF FencedJson(content) # <<>> THEN {FencedJson(content)} ELSE {})

\* a JSON object whose "exercises" is absent or has no entry
ObjectWithoutExercises(src) ==
    /\ json_loads(src).t = "dict"
    /\ LET entries == DictGet(json_loads(src).v, "exercises", PyList(<<>>))
       IN  Iterable(entries) /\ Items(entries) = <<>>

\* C9 as stated: parse never returns a routine with zero exercises.
C9_ParseNeverEmpty ==
    (op = "parse" /\ IsRoutine(result)) => result.exercises # <<>>

\* C9 as amended: parse returns a routine with zero exercises only when the
\* content is, or holds in a fenced block, a JSON object whose exercises are
\* absent or empty; parse_text never returns one.
C9_EmptyOnlyFromJsonObject ==
    /\ (op = "parse" /\ EmptyRoutine) =>
            \E src \in JsonSources : ObjectWithoutExercises(src)
    /\ op = "parse_text" => ~EmptyRoutine

\* parse answering an object without exercises with an empty routine
C9_Witness ==
    /\ op = "parse"
    /\ EmptyRoutine
    /\ \E src \in JsonSources : ObjectWithoutExercises(src)

\* the lines of text from position i on, line so far in line
RECURSIVE LinesFrom(_, _, _)
LinesFrom(text, i, line) ==
    IF i > Len(text) THEN <<line>>
    ELSE IF text[i] = "\n" THEN <<line>> \o LinesFrom(text, i + 1, <<>>)
    ELSE LinesFrom(text, i + 1, Append(line, text[i]))

\* a line that one of the two exercise patterns matches
LineMatched(line) ==
    ExerciseMatchAt(line, 1, TRUE).ok \/ ExerciseMatchAt(line, 1, FALSE).ok

\* the lines of a parse_text call that an exercise pattern matches, in order
MatchedLines == SelectSeq(LinesFrom(arg, 1, <<>>), LineMatched)

\* C10: parse_text returns None exactly when neither exercise pattern
\* matches any line of the text; a returned routine has one exercise per
\* matched line, in the order of the lines, and at least one exercise; and
\* parse("não é json nem treino") returns None.
C10_NoneIffNoLineMatches ==
    /\ op = "parse_text" =>
        /\ (result = None) <=> (MatchedLines = <<>>)
        /\ IsRoutine(result) =>
            /\ Len(result.exercises) >= 1
            /\ Len(result.exercises) = Len(MatchedLines)
            /\ \A i \in 1..Len(MatchedLines) :
                result.exercises[i].name
                    = PyStr(str_strip(ExerciseMatchAt(MatchedLines[i], 1, TRUE).groups[1]))
    /\ (op = "parse" /\ arg = Chars(NoWorkout)) => result = None

----------------------------------------------------------------------------
(* Claims about the strategies of parse *)

\* the trimmed content of a parse call
Content == str_strip(arg)

\* what each strategy of parse gives on the content: parse_json on the raw
\* content (None when it does not start with "{"), parse_json on the object
\* of the first fenced block (None when there is no block), parse_text
RawResult ==
    IF str_startswith(Content, <<"{">>) THEN parse_json(name_to_id, Content) ELSE None
FencedResult ==
    IF FencedJson(Content) # <<>> THEN parse_json(name_to_id, FencedJson(Content))
    ELSE None
TextResult == parse_text(name_to_id, Content)

\* the first outcome of the chain that is not None (an exception that a
\* strategy raises ends the chain as well), None when there is none
FirstNotNone(chain) ==
    IF \E i \in 1..Len(chain) : chain[i] # None
    THEN chain[CHOOSE i \in 1..Len(chain) :
                    chain[i] # None /\ \A j \in 1..(i - 1) : chain[j] = None]
    ELSE None

\* C11: parse(content) is the first non-None result of the chain raw JSON,
\* fenced JSON, text, applied to the trimmed content; a later strategy
\* counts only when every earlier one gave None, and the result is None only
\* when all of them gave None.
C11_FirstNonNoneOfChain ==
    op = "parse" => result = FirstNotNone(<<RawResult, FencedResult, TextResult>>)

\* the fenced block answered although the text extractor has an answer too
C11_Witness ==
    /\ op = "parse"
    /\ RawResult = None
    /\ IsRoutine(FencedResult)
    /\ IsRoutine(TextResult)
    /\ TextResult # FencedResult
    /\ result = FencedResult

\* src is a JSON object without the key "exercises"
LacksExercises(src) ==
    json_loads(src).t = "dict" /\ ~DictHas(json_loads(src).v, "exercises")

\* the JSON texts that parse attempts and that are objects without
\* "exercises": the raw content, or the fenced object once the raw attempt
\* gave None
AttemptedWithoutExercises ==
    {src \in JsonSources :
        /\ LacksExercises(src)
        /\ src = Content \/ RawResult = None}

\* the routine parse_json builds from an object without "exercises"
RoutineOfObject(src) ==
    RoutineConfig(DictGet(json_loads(src).v, "title", PyStr(Chars("Treino Importado"))),
                  <<>>,
                  DictGet(json_loads(src).v, "folder_id", None),
                  DictGet(json_loads(src).v, "notes", None))

\* C12 as stated: when parse attempts JSON extraction on a valid object
\* without an exercises array, the attempt counts as failed and the result
\* is that of parse_text on the content.
C12_FallsThroughToText ==
    (op = "parse" /\ AttemptedWithoutExercises # {}) => result = TextResult

\* C12 as amended: when parse attempts JSON extraction on a valid object
\* without an exercises array, the attempt succeeds with a routine of that
\* object (its title or the placeholder, no exercises) and parse returns it
\* without consulting parse_text; parse falls through only when parse_json
\* returned None.
C12_ObjectWithoutExercisesReturned ==
    op = "parse" =>
        /\ (str_startswith(Content, <<"{">>) /\ LacksExercises(Content))
            => result = RoutineOfObject(Content)
        /\ (RawResult = None /\ FencedJson(Content) # <<>>
                /\ LacksExercises(FencedJson(Content)))
            => result = RoutineOfObject(FencedJson(Content))
        /\ (result = TextResult /\ result # None)
            => RawResult = None /\ FencedResult = None

\* a fenced object without exercises returned although the text around it
\* holds an exercise line
C12_Witness ==
    /\ op = "parse"
    /\ \E src \in AttemptedWithoutExercises : result = RoutineOfObject(src)
    /\ IsRoutine(TextResult)
    /\ result # TextResult

\* C13: parse and parse_json never raise: for every input string the outcome
\* is None or a RoutineConfig.
C13_NeverRaises ==
    op \in {"parse", "parse_json"} => (result = None \/ IsRoutine(result))

----------------------------------------------------------------------------
(* Claims about validate_routine *)

\* the two components of the pair validate_routine returns
ValidOf(res) == res.v[1].v
ProblemsOf(res) == [i \in 1..Len(res.v[2].v) |-> res.v[2].v[i].v]

HasSets(ex) == ex.sets # <<>>
HasTemplateId(ex) == ex.exercise_template_id # None /\ ex.exercise_template_id.v # <<>>

\* title non-empty, exercises non-empty, every exercise with sets and with a
\* template id
SubmissionReady(routine) ==
    /\ routine.title.v # <<>>
    /\ routine.exercises # <<>>
    /\ \A i \in 1..Len(routine.exercises) :
           HasSets(routine.exercises[i]) /\ HasTemplateId(routine.exercises[i])

\* C14: validate_routine returns ok = True exactly when the problem list it
\* returns is empty, and the list is empty exactly when the title is
\* non-empty, there is at least one exercise, and every exercise has a
\* non-empty sets list and an exercise_template_id.
C14_OkIffNoProblemIffReady ==
    op = "validate_routine" =>
        /\ result.t = "tuple"
        /\ ValidOf(result) <=> ProblemsOf(result) = <<>>
        /\ ProblemsOf(result) = <<>> <=> SubmissionReady(arg)

\* a routine with a title and one exercise that has sets and an id is
\* accepted
C14_Witness ==
    /\ op = "validate_routine"
    /\ SubmissionReady(arg)
    /\ Len(arg.exercises) >= 1
    /\ ValidOf(result)
    /\ ProblemsOf(result) = <<>>

\* the "not found" problems of a result
IsNotFound(problem) == str_startswith(problem, NotFoundPrefix)
NotFoundProblems(res) == SelectSeq(ProblemsOf(res), IsNotFound)

\* the names of the exercises without a template id, in routine order
UnresolvedExercises(routine) ==
    SelectSeq(routine.exercises, LAMBDA ex : ~HasTemplateId(ex))
Unresolved(routine) ==
    [i \in 1..Len(UnresolvedExercises(routine)) |-> UnresolvedExercises(routine)[i].name.v]

\* s.split(", ")
RECURSIVE SplitOnComma(_, _, _)
SplitOnComma(s, i, from) ==
    IF i > Len(s) THEN <<SubSeq(s, from, Len(s))>>
    ELSE IF i < Len(s) /\ s[i] = "," /\ s[i + 1] = " "
    THEN <<SubSeq(s, from, i - 1)>> \o SplitOnComma(s, i + 2, i + 2)
    ELSE SplitOnComma(s, i + 1, from)

\* the names a "not found" problem lists between its fixed opening and its
\* fixed closing sentence
NamesListed(problem) ==
    SplitOnComma(SubSeq(problem, Len(NotFoundPrefix) + 1,
                        Len(problem) - Len(NotFoundSuffix)), 1, 1)

\* C15: with k >= 1 exercises lacking an exercise_template_id the problem
\* list holds exactly one "not found" problem, and it names the k unresolved
\* exercises in routine order; with k = 0 it holds none.
C15_OneAggregateNotFound ==
    op = "validate_routine" =>
        IF Unresolved(arg) = <<>> THEN NotFoundProblems(result) = <<>>
        ELSE /\ Len(NotFoundProblems(result)) = 1
             /\ NamesListed(NotFoundProblems(result)[1]) = Unresolved(arg)

\* two unresolved exercises of different names, one problem for the two
C15_Witness ==
    /\ op = "validate_routine"
    /\ Len(Unresolved(arg)) = 2
    /\ Unresolved(arg)[1] # Unresolved(arg)[2]
    /\ Len(NotFoundProblems(result)) = 1
    /\ NamesListed(NotFoundProblems(result)[1]) = Unresolved(arg)

\* 1 for a failed check, 0 otherwise
One(failed) == IF failed THEN 1 ELSE 0

\* the number of exercises without sets
NoSetsCount(routine) ==
    Cardinality({i \in 1..Len(routine.exercises) : ~HasSets(routine.exercises[i])})

\* C16: validate_routine raises nothing and reports every failure: the
\* length of the problem list is (1 if the title is empty) + (1 if there is
\* no exercise) + (number of exercises without sets) + (1 if at least one
\* exercise has no exercise_template_id).
C16_EveryFailureCounted ==
    op = "validate_routine" =>
        /\ result.t = "tuple"
        /\ Len(ProblemsOf(result)) =
               One(arg.title.v = <<>>) + One(arg.exercises = <<>>)
                 + NoSetsCount(arg) + One(Unresolved(arg) # <<>>)

\* an untitled routine of two exercises without sets, one of them
\* unresolved: four problems
C16_Witness ==
    /\ op = "validate_routine"
    /\ arg.title.v = <<>>
    /\ NoSetsCount(arg) = 2
    /\ Len(Unresolved(arg)) = 1
    /\ Len(ProblemsOf(result)) = 4
    /\ ~ValidOf(result)

----------------------------------------------------------------------------
(* Claims about format_routine_preview *)

\* a set with scalar reps R >= 1 and no range
ScalarReps(set) ==
    /\ set.reps.t = "int" /\ set.reps.v >= 1
    /\ set.rep_range_start = None /\ set.rep_range_end = None

\* N >= 1 sets, all with the scalar reps of the first, under a name made of
\* letters only
RoundTripExercise(ex) ==
    /\ ex.sets # <<>>
    /\ \A i \in 1..Len(ex.sets) : ScalarReps(ex.sets[i]) /\ ex.sets[i].reps = ex.sets[1].reps
    /\ ex.name.v # <<>>
    /\ \A i \in 1..Len(ex.name.v) : IsLetter(ex.name.v[i])

RoundTripRoutine(routine) ==
    /\ routine.exercises # <<>>
    /\ \A i \in 1..Len(routine.exercises) : RoundTripExercise(routine.exercises[i])

\* the exercises of parsed have the set counts and the reps of those of
\* routine
SameSetsAndReps(parsed, routine) ==
    /\ IsRoutine(parsed)
    /\ Len(parsed.exercises) = Len(routine.exercises)
    /\ \A i \in 1..Len(routine.exercises) :
        /\ Len(parsed.exercises[i].sets) = Len(routine.exercises[i].sets)
        /\ \A k \in 1..Len(parsed.exercises[i].sets) :
               parsed.exercises[i].sets[k].reps = routine.exercises[i].sets[1].reps

\* C17: for a routine whose exercises each have N >= 1 sets with scalar reps
\* R >= 1 and a purely alphabetic name, parse_text of the text produced by
\* format_routine_preview yields a routine in which each exercise again has
\* N sets with reps R.
C17_PreviewRoundTrip ==
    (op = "format_routine_preview" /\ RoundTripRoutine(arg)) =>
        SameSetsAndReps(parse_text(name_to_id, result.v), arg)

\* the end of the line that starts at from
LineEnd(s, from) ==
    IF \E k \in from..Len(s) : s[k] = "\n"
    THEN CHOOSE k \in from..Len(s) : s[k] = "\n" /\ \A j \in from..(k - 1) : s[j] # "\n"
    ELSE Len(s) + 1

\* text.split("\n"), from the line that starts at from
RECURSIVE SplitLines(_, _)
SplitLines(s, from) ==
    IF LineEnd(s, from) > Len(s) THEN <<SubSeq(s, from, Len(s))>>
    ELSE <<SubSeq(s, from, LineEnd(s, from) - 1)>> \o SplitLines(s, LineEnd(s, from) + 1)

\* the line of the i-th exercise in a preview: the one that opens with its
\* number
ExerciseLineOf(text, i) ==
    LET lines == SplitLines(text, 1)
    IN  lines[CHOOSE k \in 1..Len(lines) :
                  str_startswith(lines[k], Chars(ToString(i)) \o Chars(". "))]

\* two exercises that differ at most in the fields of their sets after the
\* first
SameButLaterSetsOf(e1, e2) ==
    /\ [e1 EXCEPT !.sets = <<>>] = [e2 EXCEPT !.sets = <<>>]
    /\ Len(e1.sets) = Len(e2.sets)
    /\ e1.sets # <<>> => e1.sets[1] = e2.sets[1]

SameButLaterSets(r1, r2) ==
    /\ [r1 EXCEPT !.exercises = <<>>] = [r2 EXCEPT !.exercises = <<>>]
    /\ Len(r1.exercises) = Len(r2.exercises)
    /\ \A i \in 1..Len(r1.exercises) : SameButLaterSetsOf(r1.exercises[i], r2.exercises[i])

HasRepRange(set) == set.rep_range_start # None /\ set.rep_range_end # None
HasScalarReps(set) == ~HasRepRange(set) /\ set.reps # None

\* "Nxstart-end" and "NxR"
RangeDescriptor(sets) ==
    Chars(ToString(Len(sets))) \o <<"x">> \o Chars(ToString(sets[1].rep_range_start.v))
        \o <<"-">> \o Chars(ToString(sets[1].rep_range_end.v))
RepsDescriptor(sets) ==
    Chars(ToString(Len(sets))) \o <<"x">> \o Chars(ToString(sets[1].reps.v))

\* the line shows the descriptor between the name and the rest
ShowsDescriptor(line, descriptor) ==
    str_contains(line, Chars("** - ") \o descriptor \o Chars(" ("))

\* two routines equal except for the sets after the first give the same text
C18_LaterSetsIgnored ==
    op = "format_routine_preview" =>
        \A other \in Routines :
            SameButLaterSets(arg, other) => format_routine_preview(other) = result

\* the resolved marker is on the line exactly when the exercise has a
\* template id
C18_MarkerIffResolved ==
    op = "format_routine_preview" =>
        \A i \in 1..Len(arg.exercises) :
            str_contains(ExerciseLineOf(result.v, i), <<CheckMark>>)
                <=> HasTemplateId(arg.exercises[i])

\* the descriptor by the first set: a range, or scalar reps
C18_DescriptorOfFirstSet ==
    op = "format_routine_preview" =>
        \A i \in 1..Len(arg.exercises) :
            LET sets == arg.exercises[i].sets
            IN  /\ (sets # <<>> /\ HasRepRange(sets[1])) =>
                       ShowsDescriptor(ExerciseLineOf(result.v, i), RangeDescriptor(sets))
                /\ (sets # <<>> /\ HasScalarReps(sets[1])) =>
                       ShowsDescriptor(ExerciseLineOf(result.v, i), RepsDescriptor(sets))

\* C18: the preview depends only on the number of sets and on the first set
\* of each exercise: routines equal except for the fields of the sets at
\* index >= 1 give identical text; the descriptor is "Nxstart-end" when the
\* first set has a rep range and "NxR" when it has scalar reps R; the
\* resolved marker is shown exactly when exercise_template_id is present.
C18_DescriptorFromFirstSetOnly ==
    C18_LaterSetsIgnored /\ C18_DescriptorOfFirstSet /\ C18_MarkerIffResolved

----------------------------------------------------------------------------
(* Claims about RoutineConfig.to_api_format *)

\* the exercises of a wire routine, and the sets of a wire exercise
WireExercises(wire) == DictAt(wire.v, "exercises").v
WireSets(wire_exercise) == DictAt(wire_exercise.v, "sets").v

\* the wire exercise is the one of ex: its identifying fields, and as many
\* sets, the k-th being the conversion of the k-th SetConfig with type,
\* weight_kg and reps unchanged
WireOfExercise(wire_exercise, ex) ==
    /\ DictAt(wire_exercise.v, "exercise_template_id") = ex.exercise_template_id
    /\ DictAt(wire_exercise.v, "rest_seconds") = ex.rest_seconds
    /\ DictAt(wire_exercise.v, "notes") = ex.notes
    /\ Len(WireSets(wire_exercise)) = Len(ex.sets)
    /\ \A k \in 1..Len(ex.sets) :
        /\ WireSets(wire_exercise)[k] = SetConfig_to_api_format(ex.sets[k])
        /\ DictAt(WireSets(wire_exercise)[k].v, "type") = ex.sets[k].type
        /\ DictAt(WireSets(wire_exercise)[k].v, "weight_kg") = ex.sets[k].weight_kg
        /\ DictAt(WireSets(wire_exercise)[k].v, "reps") = ex.sets[k].reps

\* C19: to_api_format keeps count and order: the wire routine has as many
\* exercises as routine.exercises, in the same order, each with as many sets
\* as exercise.sets, in the same order, the i-th wire set being the
\* conversion of the i-th SetConfig (type, weight_kg, reps unchanged).
C19_OrderAndCountKept ==
    op = "RoutineConfig.to_api_format" =>
        /\ result.t = "dict"
        /\ Len(WireExercises(result)) = Len(arg.exercises)
        /\ \A i \in 1..Len(arg.exercises) :
               WireOfExercise(WireExercises(result)[i], arg.exercises[i])

\* two exercises that differ on the wire, the second with two sets that
\* differ, converted in place
C19_Witness ==
    /\ op = "RoutineConfig.to_api_format"
    /\ Len(arg.exercises) = 2
    /\ arg.exercises[1].exercise_template_id # arg.exercises[2].exercise_template_id
    /\ Len(arg.exercises[2].sets) = 2
    /\ arg.exercises[2].sets[1] # arg.exercises[2].sets[2]
    /\ WireExercises(result)[1] # WireExercises(result)[2]
    /\ WireSets(WireExercises(result)[2])[1] # WireSets(WireExercises(result)[2])[2]
    /\ WireOfExercise(WireExercises(result)[2], arg.exercises[2])

----------------------------------------------------------------------------
(* Claims about the state of the parser *)

\* C20: after construction no call of find_exercise_id, parse_json,
\* parse_text, parse or validate_routine changes the name index or the
\* catalog: every step leaves both as construction made them.
C20_IndexAndCatalogFrozen ==
    [][name_to_id' = name_to_id /\ exercise_templates' = exercise_templates]_vars

\* a name resolved through the substring tier, absent from the index before
\* and after the call
C20_Witness ==
    /\ op = "find_exercise_id"
    /\ result # None
    /\ name_to_id # <<>>
    /\ ~DictHas(name_to_id, str_strip(str_lower(arg)))
    /\ name_to_id = build_name_index(exercise_templates)

----------------------------------------------------------------------------
(* Claims about the sets the extractors build *)

\* a set with scalar reps next to a bound of a rep range
TwoDescriptors(set) ==
    set.reps # None /\ (set.rep_range_start # None \/ set.rep_range_end # None)

\* C21: every SetConfig built by parse_json (abbreviated or detailed form)
\* or by parse_text carries at most one rep descriptor: never scalar reps
\* together with rep_range_start or rep_range_end.
C21_AtMostOneRepDescriptor ==
    (op \in {"parse_json", "parse_text"} /\ IsRoutine(result)) =>
        \A i \in 1..Len(result.exercises) :
            \A k \in 1..Len(result.exercises[i].sets) :
                ~TwoDescriptors(result.exercises[i].sets[k])

\* an entry with an exercise_template_id of its own: a non-empty string
HasExplicitId(e) ==
    /\ e.t = "dict"
    /\ DictHas(e.v, "exercise_template_id")
    /\ DictAt(e.v, "exercise_template_id").t = "str"
    /\ DictAt(e.v, "exercise_template_id").v # <<>>

EntryName(e) == DictGet(e.v, "name", PyStr(<<>>))

\* C22: in parse_json an entry with an explicit exercise_template_id keeps
\* exactly that id and the resolver is not asked about it (a name the
\* resolver cannot take does not stop the extraction), even when its name
\* matches another catalog entry; the other entries get
\* find_exercise_id(name).
C22_ExplicitIdSkipsResolver ==
    op = "parse_json" =>
        /\ IsRoutine(result) =>
               \A i \in 1..Len(DocEntries) :
                   result.exercises[i].exercise_template_id =
                       IF HasExplicitId(DocEntries[i])
                       THEN DictAt(DocEntries[i].v, "exercise_template_id")
                       ELSE find_exercise_id(name_to_id, EntryName(DocEntries[i]).v)
        /\ (/\ DocEntries # <<>>
            /\ \A i \in 1..Len(DocEntries) :
                   /\ HasExplicitId(DocEntries[i])
                   /\ IsAbbreviated(DocEntries[i])
                   /\ ~DictHas(DocEntries[i].v, "rep_range")) => IsRoutine(result)

\* an entry named after the catalog's "Bench Press" with another id of its
\* own keeps its own
C22_Witness ==
    /\ op = "parse_json"
    /\ IsRoutine(result)
    /\ Len(DocEntries) = 1
    /\ HasExplicitId(DocEntries[1])
    /\ EntryName(DocEntries[1]).t = "str"
    /\ find_exercise_id(name_to_id, EntryName(DocEntries[1]).v) # None
    /\ find_exercise_id(name_to_id, EntryName(DocEntries[1]).v)
           # DictAt(DocEntries[1].v, "exercise_template_id")
    /\ result.exercises[1].exercise_template_id = DictAt(DocEntries[1].v, "exercise_template_id")

----------------------------------------------------------------------------
(* Claims about the tiers of the resolver *)

\* the first catalog record of a non-empty set of records
FirstOf(entries) == CHOOSE i \in entries : \A j \in entries : i <= j

\* the id the index holds for the title of record i: that of the last
\* record with this title
IndexedId(i) ==
    PyStr(exercise_templates[
        CHOOSE j \in 1..Len(exercise_templates) :
            /\ CatalogName(j) = CatalogName(i)
            /\ \A k \in 1..Len(exercise_templates) :
                   CatalogName(k) = CatalogName(i) => k <= j][1])

\* C23: when no indexed name equals the query and some indexed name
\* contains the lower-cased trimmed query or is contained in it,
\* find_exercise_id returns the id indexed under the first such name in
\* catalog order, whatever the token overlap of the other names; the id
\* belongs to an entry in the substring relation.
C23_FirstSubstringEntry ==
    (op = "find_exercise_id" /\ ExactEntries = {} /\ SubstringEntries # {}) =>
        /\ result = IndexedId(FirstOf(SubstringEntries))
        /\ \E i \in SubstringEntries : result = PyStr(exercise_templates[i][1])

\* the first record matches by substring only, the second shares a word
\* with the query: the first is returned
C23_Witness ==
    /\ op = "find_exercise_id"
    /\ ExactEntries = {}
    /\ SubstringEntries = {1, 2}
    /\ TokenEntries = {2}
    /\ result = PyStr(TemplateId(1))

\* the indexed records, and the number of words record i shares with the
\* query
IndexedEntries == {i \in 1..Len(exercise_templates) : CatalogName(i) # <<>>}
Score(i) == Cardinality(str_split_set(CatalogName(i)) \cap str_split_set(QueryLower))

\* the indexed records of maximal score
BestEntries == {i \in IndexedEntries : \A j \in IndexedEntries : Score(j) <= Score(i)}

\* C24: when neither the exact nor the substring tier matches,
\* find_exercise_id returns the id of an indexed name whose token
\* intersection with the query is maximal over the index and at least 1,
\* the first such name in index order; it returns None exactly when the
\* maximal score is 0.
C24_BestTokenOverlap ==
    (op = "find_exercise_id" /\ ExactEntries = {} /\ SubstringEntries = {}) =>
        IF IndexedEntries = {} \/ \A i \in IndexedEntries : Score(i) = 0
        THEN result = None
        ELSE /\ result = IndexedId(FirstOf(BestEntries))
             /\ result # None

\* the second record shares more words with the query than the first, which
\* shares some: the second is returned
C24_Witness ==
    /\ op = "find_exercise_id"
    /\ ExactEntries = {}
    /\ SubstringEntries = {}
    /\ IndexedEntries = {1, 2}
    /\ Score(1) >= 1
    /\ Score(2) > Score(1)
    /\ result = PyStr(TemplateId(2))

----------------------------------------------------------------------------
(* Claims about the annotations of a text line *)

\* the set count and the rep count written in a line "Supino: NxR - 90s
\* descanso"
RestLineSets == IntOf(SubSeq(arg, 9, DigitsEnd(arg, 9) - 1))
RestLineReps ==
    IntOf(SubSeq(arg, DigitsEnd(arg, 9) + 1, DigitsEnd(arg, DigitsEnd(arg, 9) + 1) - 1))

\* C25: a line with scalar reps and a dash-separated rest annotation but no
\* weight, such as "Supino: 3x10 - 90s descanso", gives N sets with reps R
\* and no rep range, and an exercise with rest_seconds = 90: the rest number
\* is not taken as the end of a rep range.
C25_RestWithoutWeight ==
    (op = "parse_text"
        /\ arg \in RestOnlyLines \cup {Chars("Supino: 3x10 - 90s descanso")}) =>
        /\ IsRoutine(result)
        /\ Len(result.exercises) = 1
        /\ result.exercises[1].rest_seconds = PyInt(90)
        /\ Len(result.exercises[1].sets) = RestLineSets
        /\ \A k \in 1..Len(result.exercises[1].sets) :
            /\ result.exercises[1].sets[k].reps = PyInt(RestLineReps)
            /\ result.exercises[1].sets[k].rep_range_start = None
            /\ result.exercises[1].sets[k].rep_range_end = None

----------------------------------------------------------------------------
(* Claims about the title of parse_text *)

Placeholder == Chars("Treino Importado")

\* the lines on which TITLE_PATTERN can start a match
TitleLines(text) == {p \in 1..(Len(text) + 1) : TitleMatchAt(text, p) > 0}

\* the title is part of one line of the text
WithinOneLine(title, text) ==
    /\ \A i \in 1..Len(title) : title[i] # "\n"
    /\ \E k \in 1..Len(SplitLines(text, 1)) : str_contains(SplitLines(text, 1)[k], title)

\* C26: the title parse_text returns comes from a single line: the trimmed
\* text after the heading marker or the "Treino"/"Rotina" label of the first
\* matching line, with no line break and nothing of a following line; it is
\* "Treino Importado" when no line matches.
C26_TitleFromOneLine ==
    (op = "parse_text" /\ IsRoutine(result)) =>
        IF TitleLines(arg) = {} THEN result.title.v = Placeholder
        ELSE WithinOneLine(result.title.v, arg)

----------------------------------------------------------------------------
(* Claims about the rep range on the conversion paths *)

\* the rep_range of a wire set, or Absent
Absent == [t |-> "absent"]
RepRangeOf(wire_set) ==
    IF DictHas(wire_set.v, "rep_range") THEN DictAt(wire_set.v, "rep_range") ELSE Absent

\* the SetConfig with the reps and the explicit range of a set written as a
\* dict
SetConfigOf(d) ==
    [SetConfig EXCEPT
        !.reps = DictGet(d.v, "reps", None),
        !.rep_range_start =
            IF DictHas(d.v, "rep_range") THEN DictAt(DictAt(d.v, "rep_range").v, "start")
            ELSE None,
        !.rep_range_end =
            IF DictHas(d.v, "rep_range") THEN DictAt(DictAt(d.v, "rep_range").v, "end")
            ELSE None]

\* the exercises of the payload of create_routine / update_routine
PayloadExercises(payload) == DictAt(DictAt(payload.v, "routine").v, "exercises").v

\* the exercises RoutineConfig.to_api_format hands to the client
ConvertedExercises ==
    {DictAt(RoutineConfig_to_api_format(RoutineConfig(PyStr(Chars("Treino A")), <<ex>>, None, None)).v,
            "exercises") : ex \in Exercises}

\* the client puts in every wire set the rep_range SetConfig.to_api_format
\* gives for the same reps and the same explicit range
C27_SameRangeAsSetConfig ==
    (op \in {"create_routine", "update_routine"} /\ arg # None) =>
        \A i \in 1..Len(arg.v) :
            \A k \in 1..Len(WireSets(arg.v[i])) :
                RepRangeOf(WireSets(PayloadExercises(result)[i])[k])
                    = RepRangeOf(SetConfig_to_api_format(SetConfigOf(WireSets(arg.v[i])[k])))

\* create_routine leaves the rep_range of the sets of RoutineConfig.to_api_format
\* as it finds it
C27_ConvertedSetsUnchanged ==
    (op = "create_routine" /\ arg \in ConvertedExercises) =>
        \A i \in 1..Len(arg.v) :
            \A k \in 1..Len(WireSets(arg.v[i])) :
                RepRangeOf(WireSets(PayloadExercises(result)[i])[k])
                    = RepRangeOf(WireSets(arg.v[i])[k])

\* C27: the rep-range policy is the same on every conversion path: for the
\* same reps and the same explicit range (absent, or start <= end with
\* start = 0 included) SetConfig.to_api_format, create_routine and
\* update_routine put the same rep_range, or none, in the wire set; and
\* create_routine leaves the rep_range of every set of
\* RoutineConfig.to_api_format unchanged.
C27_SamePolicyOnEveryPath ==
    C27_SameRangeAsSetConfig /\ C27_ConvertedSetsUnchanged

----------------------------------------------------------------------------
(* Claims about the empty name *)

\* an entry of the document with neither a name nor an exercise_template_id
Nameless(e) ==
    /\ e.t = "dict"
    /\ ~DictHas(e.v, "name")
    /\ ~DictHas(e.v, "exercise_template_id")

\* find_exercise_id gives None for a name that is empty once trimmed
C28_EmptyQueryIsNone ==
    (op = "find_exercise_id" /\ QueryLower = <<>>) => result = None

\* parse_json leaves exercise_template_id = None in an entry with neither a
\* name nor an exercise_template_id
C28_NamelessEntryIsNone ==
    (op = "parse_json" /\ IsRoutine(result)) =>
        \A i \in 1..Len(DocEntries) :
            Nameless(DocEntries[i]) => result.exercises[i].exercise_template_id = None

----------------------------------------------------------------------------
(* Claims about the router *)

\* a call of generate is running or has ended; it has ended with a text; it
\* has ended with RuntimeError
InGenerate == op = "generate"
Returned == InGenerate /\ result.t = "str"
Raised == InGenerate /\ IsRaise(result)

\* the names of the models attempted so far, in the order of the attempts:
\* those that left an error, then the one that answered
Attempted ==
    [k \in 1..Len(router_errors) |-> router_errors[k][1]]
        \o (IF Returned THEN <<last_successful_model.v>> ELSE <<>>)

\* the model memorised when generate was called
MemorisedOnEntry == arg.last_successful_model

\* the loop goes through the models available in the environment of the call,
\* each once: the memorised one first, then the others by ascending priority
C29_OrderOfAttempts ==
    InGenerate =>
        /\ {available[k] : k \in 1..Len(available)}
               = {models[k] : k \in {k \in 1..Len(models) : models[k].api_key_env \in arg.environ}}
        /\ \A i, j \in 1..Len(available) :
               i < j =>
                   /\ available[i].name # available[j].name
                   /\ PyStr(available[j].name) # MemorisedOnEntry
                   /\ \/ PyStr(available[i].name) = MemorisedOnEntry
                      \/ available[i].priority < available[j].priority
        /\ Len(Attempted) <= Len(available)
        /\ \A k \in 1..Len(Attempted) : Attempted[k] = available[k].name

\* the call returns at the first attempt that succeeds, and that model is
\* memorised
C29_ReturnsAtFirstSuccess ==
    Returned =>
        /\ last_successful_model = PyStr(available[Len(router_errors) + 1].name)
        /\ Attempted[Len(Attempted)] = last_successful_model.v

\* RuntimeError only when no model is available or every attempt failed
C29_RaisesOnlyWhenNoneWorked ==
    Raised => (available = <<>> \/ Len(router_errors) = Len(available))

\* a call in which every attempt failed leaves the memorised model as it was
C29_FailedCallKeepsMemorised ==
    (Raised /\ available # <<>>) => last_successful_model = MemorisedOnEntry

\* C29: generate attempts the available models one at a time, each at most
\* once per call, the last successful model first (if still available), then
\* the others by ascending priority; it returns at the first attempt that
\* succeeds and records that model as _last_successful_model; it raises
\* RuntimeError only when no model is available or every attempt failed, and
\* a call in which every attempt failed leaves _last_successful_model
\* unchanged.
C29_FallbackInOrder ==
    /\ C29_OrderOfAttempts
    /\ C29_ReturnsAtFirstSuccess
    /\ C29_RaisesOnlyWhenNoneWorked
    /\ C29_FailedCallKeepsMemorised

----------------------------------------------------------------------------
(* Claims about the name index *)

\* the positions of the index entries under a name
EntriesUnder(name) == {k \in 1..Len(name_to_id) : name_to_id[k][1] = name}

\* the last catalog record whose lower-cased trimmed title is that of record i
LastNamedAs(i) ==
    CHOOSE j \in 1..Len(exercise_templates) :
        /\ CatalogName(j) = CatalogName(i)
        /\ \A k \in 1..Len(exercise_templates) : CatalogName(k) = CatalogName(i) => k <= j

\* the id of the i-th catalog record
CatalogId(i) == exercise_templates[i][1]

\* C30: the name index holds exactly one entry for the lower-cased trimmed
\* title of a template, also when several templates share it, and the entry
\* maps to the id of the last of them in catalog order; a template with a
\* missing or empty title is not indexed and find_exercise_id never returns
\* its id.
C30_LastOfEqualTitlesIndexed ==
    \A i \in 1..Len(exercise_templates) :
        IF CatalogName(i) # <<>>
        THEN /\ Cardinality(EntriesUnder(CatalogName(i))) = 1
             /\ DictAt(name_to_id, CatalogName(i)) = CatalogId(LastNamedAs(i))
        ELSE /\ \A k \in 1..Len(name_to_id) : name_to_id[k][2] # CatalogId(i)
             /\ op = "find_exercise_id" => result # PyStr(CatalogId(i))

\* two templates of equal title once lower-cased and trimmed, written
\* differently, and a query answered with the id of the second
C30_Witness ==
    /\ Len(exercise_templates) = 2
    /\ CatalogName(1) = CatalogName(2)
    /\ CatalogName(1) # <<>>
    /\ TemplateTitle(exercise_templates[1][2]) # TemplateTitle(exercise_templates[2][2])
    /\ op = "find_exercise_id"
    /\ result = PyStr(CatalogId(2))

\* a template without a title beside an indexed one, and a query answered
C30_WitnessUntitled ==
    /\ Len(exercise_templates) = 2
    /\ CatalogName(1) = <<>>
    /\ CatalogName(2) # <<>>
    /\ op = "find_exercise_id"
    /\ result = PyStr(CatalogId(2))

====
